---- MODULE Spec2Model ----
(***************************************************************************)
(* Model of lsst.pipe.tasks.imageDifference: ImageDifferenceConfig,        *)
(* ImageDifferenceTask.__init__, ImageDifferenceTask.run and               *)
(* ImageDifferenceTask.getTemplate.                                        *)
(*                                                                         *)
(* Spec          one command-line invocation: validate the configuration,  *)
(*               construct the task, run it on one data reference; every   *)
(*               configuration, the smallest catalogs.                     *)
(* SpecMatch     the same invocation with near-default configurations and  *)
(*               larger catalogs, positions and exposure identifiers.      *)
(* SpecTemplate  getTemplate alone, one patch of the patch list per step.  *)
(* SpecRetry     the command run twice on the same data reference.         *)
(* SpecCalibrate lsst.pipe.tasks.calibrate: CalibrateConfig.validate and   *)
(*               CalibrateTask.run.                                        *)
(***************************************************************************)
EXTENDS Integers, Sequences, FiniteSets, TLC

VARIABLES
    cfg,        \* ImageDifferenceConfig: the boolean fields
    pc,         \* position of the control flow
    err,        \* the exception that ended the invocation, or NoError
    repo,       \* datasets the data reference can see (inputs)
    puts,       \* sequence of sensorRef.put calls made so far
    loc,        \* local variables of run
    idf,        \* the IdFactory made at line 223
    calls,      \* calls made to the external engines and to getTemplate
    ret,        \* the Struct returned by run
    tpl,        \* local variables of getTemplate (SpecTemplate)
    cal,        \* CalibrateTask.run: configuration, locals, exposure, result
    prev,       \* what an earlier invocation on the same data reference left
    ing         \* IngestTask.run: arguments, position, file system, registry

vars == <<cfg, pc, err, repo, puts, loc, idf, calls, ret, tpl, cal, prev, ing>>

----------------------------------------------------------------------------
(* Bounds *)

MaxPatches == 3      \* longest patch list given to getTemplate (SpecTemplate)
MaxDet == 2          \* most footprints one detection pass returns (SpecMatch)
MaxPrior == 2        \* most records in the stored "src" catalog (SpecMatch)
MaxPos == 2          \* pixel positions are 0..MaxPos on one axis (SpecMatch)
IdBits == 5          \* width of a record id (64 in the source, scaled down)
MaxSigma == 2        \* the science PSF is 1 or MaxSigma pixels wide (SpecMatch)
MaxPix == 1          \* a mask has the pixels 1..MaxPix (SpecRetry)
MaxLinked == 4       \* footprints a detection pass returns in SpecLinkage
MaxFiles == 2        \* most files named on the command line (SpecIngest)
MaxCoord == 1        \* tract pixel coordinates are 0..MaxCoord (SpecStitch)
MaxStitched == 2     \* longest patch list with pixel data (SpecStitch)

----------------------------------------------------------------------------
(* ImageDifferenceConfig *)

FlagNames == {"doAddCalexpBackground", "doSelectSources", "doSubtract",
              "doPreConvolve", "useGaussianForPreConvolution", "doDetection",
              "doMerge", "doMatchSources", "doMeasurement",
              "doWriteSubtractedExp", "doWriteMatchedExp", "doWriteSources",
              "doWriteHeavyFootprintsInSources", "convolveTemplate"}

ImageDifferenceConfig == [FlagNames -> BOOLEAN]

\* the defaults of the Field declarations
DefaultConfig ==
    [f \in FlagNames |->
        f \notin {"doWriteMatchedExp", "doWriteHeavyFootprintsInSources"}]

NoError == "none"

\* ImageDifferenceConfig.validate: the first failing check raises
validate_noHeavyCheck(c) ==
    IF c.doMeasurement /\ ~c.doDetection THEN "ValueError@136"
    ELSE IF c.doMerge /\ ~c.doDetection THEN "ValueError@138"
    ELSE NoError

validate(c) ==
    IF c.doMeasurement /\ ~c.doDetection THEN "ValueError@136"
    ELSE IF c.doMerge /\ ~c.doDetection THEN "ValueError@138"
    ELSE IF c.doWriteHeavyFootprintsInSources /\ ~c.doWriteSources
         THEN "ValueError@140"
    ELSE NoError

\* ImageDifferenceTask.__init__: the subtasks made, and the exception raised
\* by the read of self.measurement at line 173 when that subtask was not made
Subtasks(c) ==
    {"subtract"}
    \cup (IF c.doSelectSources THEN {"selectDetection", "selectMeasurement"}
          ELSE {})
    \cup (IF c.doDetection THEN {"detection"} ELSE {})
    \cup (IF c.doMeasurement THEN {"measurement"} ELSE {})

\* a constructor that does not read self.measurement at line 173
init_error_none(c) == NoError

init_error(c) ==
    IF "measurement" \in Subtasks(c) THEN NoError ELSE "AttributeError@173"

----------------------------------------------------------------------------
(* ImageDifferenceTask.getTemplate *)

\* which datasets of one patch exist in the repository
PatchData == [coadd : BOOLEAN, psf : BOOLEAN, apCorr : BOOLEAN]

RECURSIVE SeqsUpTo(_, _)
SeqsUpTo(S, n) ==
    IF n = 0 THEN {<<>>}
    ELSE LET shorter == SeqsUpTo(S, n - 1) IN
         shorter \cup {Append(q, x) : q \in {r \in shorter : Len(r) = n - 1}, x \in S}

\* the loop variables at line 511-513; a PSF or aperture correction is named
\* by the index of the patch it was read from, 0 standing for None.
\* copied, psfChecked, apChecked record the reads and existence checks made.
TemplateStart ==
    [nPatchesFound |-> 0, coaddPsf |-> 0, coaddApCorr |-> 0,
     copied |-> <<>>, psfChecked |-> <<>>, apChecked |-> <<>>]

\* one pass of the loop body, lines 514-559, for the patch at index i
PatchBody_countAfterPsf(st, i, p) ==
    IF ~p.coadd THEN st
    ELSE
    LET s1 == [st EXCEPT !.copied = Append(@, i)] IN
    IF s1.coaddPsf = 0 /\ ~p.psf
    THEN [s1 EXCEPT !.psfChecked = Append(@, i)]
    ELSE
    LET s2 == IF s1.coaddPsf = 0
              THEN [s1 EXCEPT !.coaddPsf = i, !.psfChecked = Append(@, i),
                              !.nPatchesFound = @ + 1]
              ELSE [s1 EXCEPT !.nPatchesFound = @ + 1] IN
    IF s2.coaddApCorr = 0 /\ ~p.apCorr
    THEN [s2 EXCEPT !.apChecked = Append(@, i)]
    ELSE IF s2.coaddApCorr = 0
         THEN [s2 EXCEPT !.coaddApCorr = i, !.apChecked = Append(@, i)]
         ELSE s2

\* the body without the two "if ... is None" guards of lines 534 and 548
PatchBody_fetchEveryPatch(st, i, p) ==
    IF ~p.coadd THEN st
    ELSE
    LET s1 == [st EXCEPT !.nPatchesFound = @ + 1,
                         !.copied = Append(@, i)] IN
    IF ~p.psf
    THEN [s1 EXCEPT !.psfChecked = Append(@, i)]
    ELSE
    LET s2 == [s1 EXCEPT !.coaddPsf = i, !.psfChecked = Append(@, i)] IN
    IF ~p.apCorr
    THEN [s2 EXCEPT !.apChecked = Append(@, i)]
    ELSE [s2 EXCEPT !.coaddApCorr = i, !.apChecked = Append(@, i)]

PatchBody(st, i, p) ==
    IF ~p.coadd THEN st                                   \* 521-524 continue
    ELSE
    LET s1 == [st EXCEPT !.nPatchesFound = @ + 1,         \* 526
                         !.copied = Append(@, i)] IN      \* 528-531
    IF s1.coaddPsf = 0 /\ ~p.psf
    THEN [s1 EXCEPT !.psfChecked = Append(@, i)]          \* 540-544 continue
    ELSE
    LET s2 == IF s1.coaddPsf = 0
              THEN [s1 EXCEPT !.coaddPsf = i,             \* 545
                              !.psfChecked = Append(@, i)]
              ELSE s1 IN
    IF s2.coaddApCorr = 0 /\ ~p.apCorr
    THEN [s2 EXCEPT !.apChecked = Append(@, i)]           \* 554-558 continue
    ELSE IF s2.coaddApCorr = 0
         THEN [s2 EXCEPT !.coaddApCorr = i,               \* 559
                         !.apChecked = Append(@, i)]
         ELSE s2

\* the loop at 514-559 over the first n patches of the list
RECURSIVE PatchLoop(_, _)
PatchLoop(patchList, n) ==
    IF n = 0 THEN TemplateStart
    ELSE PatchBody(PatchLoop(patchList, n - 1), n, patchList[n])

\* the checks after the loop, lines 561-565
TemplateError_psfOptional(st) ==
    IF st.nPatchesFound = 0 THEN "RuntimeError@562" ELSE NoError

TemplateError(st) ==
    IF st.nPatchesFound = 0 THEN "RuntimeError@562"
    ELSE IF st.coaddPsf = 0 THEN "RuntimeError@565"
    ELSE NoError

\* the datasets a call of getTemplate read: the coadds copied in, the PSF and
\* the aperture-correction datasets looked for
DatasetReads(st) == st.copied \o st.psfChecked \o st.apChecked

getTemplate_noPatchListCheck(patchList) ==
    LET st == PatchLoop(patchList, Len(patchList)) IN
    [error |-> TemplateError(st), st |-> st]

\* getTemplate as one call: the error it raises, or NoError and the pair
\* (coaddExposure with its PSF, coaddApCorr) it returns
getTemplate(patchList) ==
    IF patchList = <<>>
    THEN [error |-> "RuntimeError@497", st |-> TemplateStart]
    ELSE LET st == PatchLoop(patchList, Len(patchList)) IN
         [error |-> TemplateError(st), st |-> st]

----------------------------------------------------------------------------
(* the template's bounding box and pixels, getTemplate lines 499-531 *)

Coords == 0..MaxCoord

\* afwGeom.Box2I(): the empty box
Box2I == [empty |-> TRUE, minX |-> 0, maxX |-> 0, minY |-> 0, maxY |-> 0]

\* the outer bounding boxes a tract can give: non-empty, corners inclusive
OuterBBoxes ==
    {b \in [empty : {FALSE}, minX : Coords, maxX : Coords,
                              minY : Coords, maxY : Coords] :
        b.minX <= b.maxX /\ b.minY <= b.maxY}

getCorners(b) ==
    << <<b.minX, b.minY>>, <<b.maxX, b.minY>>,
       <<b.maxX, b.maxY>>, <<b.minX, b.maxY>> >>

Smaller(a, b) == IF a <= b THEN a ELSE b
Larger(a, b) == IF a >= b THEN a ELSE b

\* an include that extends the box on its lower side only
include_minOnly(b, pt) ==
    IF b.empty
    THEN [empty |-> FALSE, minX |-> pt[1], maxX |-> pt[1],
                           minY |-> pt[2], maxY |-> pt[2]]
    ELSE [empty |-> FALSE,
          minX |-> Smaller(b.minX, pt[1]), maxX |-> b.maxX,
          minY |-> Smaller(b.minY, pt[2]), maxY |-> b.maxY]

\* Box2I.include(point)
include(b, pt) ==
    IF b.empty
    THEN [empty |-> FALSE, minX |-> pt[1], maxX |-> pt[1],
                           minY |-> pt[2], maxY |-> pt[2]]
    ELSE [empty |-> FALSE,
          minX |-> Smaller(b.minX, pt[1]), maxX |-> Larger(b.maxX, pt[1]),
          minY |-> Smaller(b.minY, pt[2]), maxY |-> Larger(b.maxY, pt[2])]

\* lines 503-504: the first n corners of one outer box included
RECURSIVE IncludeCorners(_, _, _)
IncludeCorners(b, corners, n) ==
    IF n = 0 THEN b
    ELSE include(IncludeCorners(b, corners, n - 1), corners[n])

\* lines 500-504 over the first n patches of the list
RECURSIVE coaddBBox(_, _)
coaddBBox(patchList, n) ==
    IF n = 0 THEN Box2I
    ELSE IncludeCorners(coaddBBox(patchList, n - 1),
                        getCorners(patchList[n].outerBBox), 4)

contains(b, pt) ==
    /\ ~b.empty
    /\ b.minX <= pt[1] /\ pt[1] <= b.maxX
    /\ b.minY <= pt[2] /\ pt[2] <= b.maxY

PixelsOf(b) == {pt \in Coords \X Coords : contains(b, pt)}

\* line 510: the image and the variance NaN, the mask EDGE
Sentinel == [image |-> "NaN", mask |-> {"EDGE"}, variance |-> "NaN"]

\* lines 508-510: the exposure made for the box, every pixel set
BlankTemplate(bbox) == [pt \in PixelsOf(bbox) |-> Sentinel]

\* line 528: the pixel at pt of the coadd read for the patch at index i.
\* Each patch is a dataset of its own, made by its own coaddition, so its
\* values are named by the patch and the position in the tract.
StoredPixel(i, pt) ==
    [image |-> <<i, pt>>, mask |-> {}, variance |-> <<i, pt>>]

\* a copy that leaves alone the pixels an earlier patch has written
CopyPatch_keepFirst(image, i, outerBBox) ==
    [pt \in DOMAIN image |->
        IF contains(outerBBox, pt) /\ image[pt] = Sentinel
        THEN StoredPixel(i, pt) ELSE image[pt]]

\* lines 528-531: the view of the patch's outer box, in the coordinates of
\* the tract (PARENT), is overwritten with the patch read
CopyPatch(image, i, outerBBox) ==
    [pt \in DOMAIN image |->
        IF contains(outerBBox, pt)
        THEN StoredPixel(i, pt) ELSE image[pt]]

\* the patches of a list with pixel data: an outer box, and whether the
\* coadd dataset exists
StitchPatches ==
    [coadd : BOOLEAN, psf : {TRUE}, apCorr : {TRUE}, outerBBox : OuterBBoxes]

----------------------------------------------------------------------------
(* the PSF widths of run, lines 236-239, 266-268 and 304 *)

\* a width in pixels, kept exactly as the product
\* sigma * sqrt(2)^sqrt2 * FwhmPerSigma^fwhmPerSigma
Width(s) == [sigma |-> s, sqrt2 |-> 0, fwhmPerSigma |-> 0]

NoWidth == Width(0)

TimesSqrt2(w) == [w EXCEPT !.sqrt2 = @ + 1]

TimesFwhmPerSigma(w) == [w EXCEPT !.fwhmPerSigma = @ + 1]

\* lines 251, 266 and 268
scienceSigmaPost_unscaled(c, scienceSigmaOrig) == scienceSigmaOrig

scienceSigmaPost(c, scienceSigmaOrig) ==
    IF c.doPreConvolve THEN TimesSqrt2(scienceSigmaOrig) ELSE scienceSigmaOrig

\* the argument of line 304
scienceFwhmPix(sigmaPost) == TimesFwhmPerSigma(sigmaPost)

----------------------------------------------------------------------------
(* afw.table.IdFactory.makeSource, as used at line 223 *)

RECURSIVE Pow2(_)
Pow2(n) == IF n = 0 THEN 1 ELSE 2 * Pow2(n - 1)

\* the factory keeps the exposure id in the high bits and counts in the
\* reserved low bits
makeSource(expId, reserved) ==
    [upper |-> expId * Pow2(reserved), lower |-> 0, sentinel |-> Pow2(reserved)]

\* the factory can hand out k more ids without leaving the reserved bits
CanAllocate_unchecked(f, k) == TRUE

CanAllocate(f, k) == f.lower + k < f.sentinel

\* the j-th id handed out after the factory reached state f
NewId(f, j) == f.upper + f.lower + j

\* a SourceRecord of the difference-image catalog: its id, the centroid the
\* measurement gives it (NoPos before that), and the two match fields,
\* 0 when unset
NoPos == 0 - 1

NewRecord(id) == [id |-> id, pos |-> NoPos, srcMatchId |-> 0, refMatchId |-> 0]

\* k records made by table.makeRecord / catalog.addNew from factory f
NewRecords(f, k) == [j \in 1..k |-> NewRecord(NewId(f, j))]

Advance(f, k) == [f EXCEPT !.lower = @ + k]

----------------------------------------------------------------------------
(* the cross-match block of run, lines 358-388 *)

Pos == 0..MaxPos

\* matchRadPixel of line 362, in the units of Pos: a pair matches when its
\* distance is below it
matchRadPixel == 2

Dist(a, b) == IF a >= b THEN a - b ELSE b - a

\* the stored "src" catalogs: records with ids 101, 102, ..., kept in the
\* order of their positions, the order in which matchXy walks its first
\* catalog
PriorCatalogs ==
    {c \in SeqsUpTo(Pos, MaxPrior) :
        \A i \in 1..Len(c) : \A j \in 1..Len(c) : i < j => c[i] <= c[j]}

PriorId(i) == 100 + i

RefId(i) == 200 + i

\* afwTable.matchXy(first, second, radius, True): for each record of the
\* first catalog that has a record of the second within the radius, one
\* match, with the closest record of the second catalog (the earlier one on
\* equal distance). first is a sequence of positions, second of records;
\* a match is <<first.getId(), second.getId()>>.
InRadius(p, second) ==
    {j \in 1..Len(second) :
        second[j].pos # NoPos /\ Dist(p, second[j].pos) < matchRadPixel}

Closest(p, second) ==
    CHOOSE j \in InRadius(p, second) :
        \A k \in InRadius(p, second) :
            \/ Dist(p, second[j].pos) < Dist(p, second[k].pos)
            \/ Dist(p, second[j].pos) = Dist(p, second[k].pos) /\ j <= k

RECURSIVE matchXy(_, _, _)
matchXy(first, second, n) ==
    IF n = 0 THEN <<>>
    ELSE LET before == matchXy(first, second, n - 1) IN
         IF InRadius(first[n], second) = {} THEN before
         ELSE Append(before, <<PriorId(n), second[Closest(first[n], second)].id>>)

\* dict([(m.second.getId(), m.first.getId()) for m in matches]): a later
\* pair with the same key replaces an earlier one. A match is
\* <<first.getId(), second.getId()>>; the result is the value stored under
\* the key sid, 0 when sid is no key.
RECURSIVE MatchDict(_, _, _)
MatchDict(matches, n, sid) ==
    IF n = 0 THEN 0
    ELSE IF matches[n][2] = sid THEN matches[n][1]
    ELSE MatchDict(matches, n - 1, sid)

\* what the astrometric matcher can return for n sources: None, or a list of
\* (reference object, source) pairs, here the indices of the sources matched
RefMatchResults(n) ==
    {[none |-> TRUE, matches |-> <<>>]}
    \cup {[none |-> FALSE, matches |-> m] :
            m \in {q \in SeqsUpTo(1..n, n) :
                     \A i \in 1..Len(q) : \A j \in 1..Len(q) : i < j => q[i] < q[j]}}

RefPairs(m, recs) == [i \in 1..Len(m) |-> <<RefId(m[i]), recs[m[i]].id>>]

\* lines 382-388: the two fields are set from the two dictionaries
AssignMatchIds_skipWithoutRef(recs, srcMatches, refMatches) ==
    [i \in 1..Len(recs) |->
        LET s == MatchDict(srcMatches, Len(srcMatches), recs[i].id)
            r == MatchDict(refMatches, Len(refMatches), recs[i].id) IN
        IF refMatches = <<>> THEN recs[i]
        ELSE [recs[i] EXCEPT
                !.srcMatchId = IF s # 0 THEN s ELSE @,
                !.refMatchId = IF r # 0 THEN r ELSE @]]

\* the loop with "elif" for the second test
AssignMatchIds_elif(recs, srcMatches, refMatches) ==
    [i \in 1..Len(recs) |->
        LET s == MatchDict(srcMatches, Len(srcMatches), recs[i].id)
            r == MatchDict(refMatches, Len(refMatches), recs[i].id) IN
        IF s # 0 THEN [recs[i] EXCEPT !.srcMatchId = s]
        ELSE [recs[i] EXCEPT !.refMatchId = IF r # 0 THEN r ELSE @]]

AssignMatchIds(recs, srcMatches, refMatches) ==
    [i \in 1..Len(recs) |->
        LET s == MatchDict(srcMatches, Len(srcMatches), recs[i].id)
            r == MatchDict(refMatches, Len(refMatches), recs[i].id) IN
        [recs[i] EXCEPT
            !.srcMatchId = IF s # 0 THEN s ELSE @,
            !.refMatchId = IF r # 0 THEN r ELSE @]]

----------------------------------------------------------------------------
(* the mask of the difference exposure, lines 326-336 *)

\* a mask gives every pixel the set of its mask planes
MaskPlanes == {"DETECTED", "DETECTED_NEGATIVE", "EDGE"}

Pixels == 1..MaxPix

Masks == [Pixels -> SUBSET MaskPlanes]

NoMask == <<>>

\* a mask with bits of an earlier detection
StaleMask ==
    [i \in Pixels |-> IF i = 1 THEN {"DETECTED", "EDGE"}
                      ELSE {"DETECTED_NEGATIVE"}]

\* line 328: mask &= ~(DETECTED | DETECTED_NEGATIVE)
ClearDetected_positiveOnly(mask) ==
    [i \in DOMAIN mask |-> mask[i] \ {"DETECTED"}]

ClearDetected_nothing(mask) == mask

ClearDetected(mask) ==
    [i \in DOMAIN mask |-> mask[i] \ {"DETECTED", "DETECTED_NEGATIVE"}]

\* detection.makeSourceCatalog marks the pixels of the n footprints it finds,
\* positive and negative ones in turn
DetectionPlanes(n, i) ==
    IF i > n THEN {}
    ELSE IF i % 2 = 1 THEN {"DETECTED"} ELSE {"DETECTED_NEGATIVE"}

SetDetected(mask, n) == [i \in DOMAIN mask |-> mask[i] \cup DetectionPlanes(n, i)]

----------------------------------------------------------------------------
(* inputs and engines: the same question gets the same answer *)

\* what each input dataset and engine has answered so far, as a set of
\* (key, val) records
NoMemo == [subtract |-> {}, differenceExp |-> {}, detection |-> {},
           merge |-> {}, measurement |-> {}, src |-> {}, astrometry |-> {}]

\* the answers possible for the question key: the one given before, or any
\* of S when it is asked for the first time
Answer(memo, key, S) ==
    IF \E r \in memo : r.key = key
    THEN {r.val : r \in {x \in memo : x.key = key}}
    ELSE S

Remember(memo, key, val) == memo \cup {[key |-> key, val |-> val]}

----------------------------------------------------------------------------
(* calibrate.py: CalibrateConfig and the state of CalibrateTask.run *)

\* the boolean fields of CalibrateConfig; doApplyApCorr is
\* measurement.doApplyApCorr, samePrefix says that initialMeasurement.prefix
\* equals measurement.prefix
CalFlags == {"doBackground", "doPsf", "doComputeApCorr", "doAstrometry",
             "doPhotoCal", "doApplyApCorr", "samePrefix"}

CalibrateConfig == [CalFlags -> BOOLEAN]

\* validate without the test of lines 116-117
CalibrateConfig_validate_applyUnchecked(c) ==
    IF c.doPsf /\ (c.doPhotoCal \/ c.doComputeApCorr \/ c.doAstrometry)
       /\ c.samePrefix
    THEN "ValueError@112"
    ELSE IF c.doComputeApCorr /\ ~c.doPsf THEN "ValueError@115"
    ELSE IF c.doPhotoCal /\ ~c.doAstrometry THEN "ValueError@119"
    ELSE NoError

\* CalibrateConfig.validate, lines 108-119
CalibrateConfig_validate(c) ==
    IF c.doPsf /\ (c.doPhotoCal \/ c.doComputeApCorr \/ c.doAstrometry)
       /\ c.samePrefix
    THEN "ValueError@112"
    ELSE IF c.doComputeApCorr /\ ~c.doPsf THEN "ValueError@115"
    ELSE IF c.doApplyApCorr /\ ~c.doComputeApCorr THEN "ValueError@117"
    ELSE IF c.doPhotoCal /\ ~c.doAstrometry THEN "ValueError@119"
    ELSE NoError

\* the header keys of lines 265-272
MagKeys == {"MAGZERO", "MAGZERO_RMS", "MAGZERO_NOBJ",
            "COLORTERM1", "COLORTERM2", "COLORTERM3"}

\* the exposures run can be given: the zero point of its Calib and the
\* header keys are unset or left by an earlier calibration, the exposure
\* time is zero or positive
GivenExposures ==
    {[fluxMag0 |-> f, metadata |-> [k \in MagKeys |-> m], exptime |-> t] :
        f \in {"unset", "old"}, m \in {"unset", "old"}, t \in {0, 1}}

\* the locals of run before line 172
CalStart(c, exposure) ==
    [config |-> c, at |-> "validate", error |-> NoError,
     given |-> exposure, exposure |-> exposure,
     backgrounds |-> 0, sources |-> "None", psf |-> "None", cellSet |-> "None",
     apCorr |-> "None", matches |-> "None", matchMeta |-> "None",
     photocal |-> "not run", photocalRet |-> "None",
     calls |-> <<>>, log |-> <<>>,
     ret |-> [returned |-> FALSE, photocal |-> "None", psf |-> "None",
              apCorr |-> "None", matches |-> "None"]]

CalibrateIdle ==
    [CalStart([f \in CalFlags |-> FALSE],
              [fluxMag0 |-> "unset", metadata |-> [k \in MagKeys |-> "unset"],
               exptime |-> 0])
     EXCEPT !.at = "idle"]

CalRaise(c, e) == [c EXCEPT !.at = "raised", !.error = e]

----------------------------------------------------------------------------
(* ingest.py: ParseTask, RegisterTask, IngestTask *)

\* the properties of the translation table (line 23), each read from a
\* header keyword of its own; they are also the columns of the registry
\* table, "visit" being the unique one
Props == {"visit", "filter"}

unique == {"visit"}

\* the value of a header keyword, "absent" when the header lacks the keyword
HeaderValues == {"a", "b"}

Headers == [Props -> HeaderValues \cup {"absent"}]

\* a dict of file properties, "absent" for a key it does not hold
NoInfo == [p \in Props |-> "absent"]

\* lines 80-94 with the configured translation and no translators: the
\* dict passed in is supplemented in place and returned
getInfoFromMetadata(md, info) ==
    [p \in Props |-> IF md[p] # "absent" THEN md[p] ELSE info[p]]

\* lines 44-48, extnames empty: line 45 passes no info, so the dict is the
\* default-argument object made once at line 66; defaultInfo is that object
\* before the call, and the result gives it after the call
getInfo(md, defaultInfo) ==
    LET phuInfo == getInfoFromMetadata(md, defaultInfo) IN
    [phuInfo |-> phuInfo, hduInfoList |-> <<phuInfo>>, defaultInfo |-> phuInfo]

Modes == {"move", "copy", "link", "skip"}

\* what the file system does to the calls of lines 293-303
FsOutcomes == {"ok", "makedirs fails", "transfer fails"}

\* IngestTask.ingest, lines 288-310, for the file at index k: the exception
\* it lets out, the value returned, the calls that changed the file system
ingest(k, mode, dryrun, isdir, outcome) ==
    IF mode = "skip"
    THEN [error |-> NoError, ingested |-> TRUE, done |-> <<>>]       \* 289
    ELSE IF dryrun
    THEN \* line 291 formats args.mode; ingest has no name args
         [error |-> "NameError@291", ingested |-> FALSE, done |-> <<>>]
    ELSE IF ~isdir /\ outcome = "makedirs fails"
    THEN [error |-> NoError, ingested |-> FALSE, done |-> <<>>]      \* 307-309
    ELSE LET dirs == IF isdir THEN <<>> ELSE << <<"makedirs", k>> >> IN
         IF outcome = "transfer fails"
         THEN [error |-> NoError, ingested |-> FALSE, done |-> dirs]
         ELSE [error |-> NoError, ingested |-> TRUE,
               done |-> Append(dirs, <<mode, k>>)]

\* the registry file: whether it exists, whether run holds a connection,
\* the rows of the two tables, whether the transaction was committed
Registries ==
    {[exists |-> x, opened |-> FALSE, tablesMade |-> FALSE,
      rows |-> <<>>, visits |-> {},
      committed |-> FALSE, executed |-> 0] : x \in BOOLEAN}

\* RegisterTask.openRegistry, lines 167-178
openRegistry(reg, create) ==
    LET makeTable == IF create /\ reg.exists THEN TRUE ELSE ~reg.exists IN
    [reg EXCEPT !.exists = TRUE, !.opened = TRUE,
                !.tablesMade = makeTable,
                !.rows = IF makeTable THEN <<>> ELSE @,
                !.visits = IF makeTable THEN {} ELSE @]

\* RegisterTask.addRow, lines 227-237: the exception raised, or the registry
\* after the insertion
addRow(reg, info, dryrun) ==
    IF \E col \in Props : info[col] = "absent"
    THEN [error |-> "KeyError@233", reg |-> reg]
    ELSE IF dryrun
    THEN \* line 235 is ("..." % sql), values: one argument for two %s
         [error |-> "TypeError@235", reg |-> reg]
    ELSE IF \E r \in 1..Len(reg.rows) :
                \A col \in unique : reg.rows[r][col] = info[col]
    THEN [error |-> "IntegrityError@237", reg |-> reg]
    ELSE [error |-> NoError,
          reg |-> [reg EXCEPT !.rows = Append(@, info), !.executed = @ + 1]]

\* lines 321-322: the first n rows of hduInfoList added
RECURSIVE addRows(_, _, _, _)
addRows(reg, hduInfoList, n, dryrun) ==
    IF n = 0 THEN [error |-> NoError, reg |-> reg]
    ELSE LET before == addRows(reg, hduInfoList, n - 1, dryrun) IN
         IF before.error # NoError THEN before
         ELSE addRow(before.reg, hduInfoList[n], dryrun)

\* RegisterTask.addVisits, lines 245-251
addVisits(reg, dryrun) ==
    IF dryrun THEN reg
    ELSE [reg EXCEPT
            !.visits = @ \cup {reg.rows[r] : r \in 1..Len(reg.rows)},
            !.executed = @ + 1]

\* the arguments of the command: at least one file (line 19), each given
\* here by its primary header
IngestArgs ==
    [dryrun : BOOLEAN, mode : Modes, create : BOOLEAN,
     files : SeqsUpTo(Headers, MaxFiles) \ {<<>>}]

IngestStart(args, reg) ==
    [args |-> args, at |-> "L314", error |-> NoError, i |-> 0,
     defaultInfo |-> NoInfo, fileInfo |-> NoInfo,
     done |-> <<>>, registry |-> reg, given |-> reg]

IngestIdle ==
    [IngestStart([dryrun |-> FALSE, mode |-> "skip", create |-> FALSE,
                  files |-> <<>>],
                 [exists |-> FALSE, opened |-> FALSE, tablesMade |-> FALSE,
                  rows |-> <<>>, visits |-> {}, committed |-> FALSE,
                  executed |-> 0])
     EXCEPT !.at = "idle"]

----------------------------------------------------------------------------
(* State of one invocation *)

NoSources == [none |-> TRUE, recs |-> <<>>]

Sources(recs) == [none |-> FALSE, recs |-> recs]

\* lines 212-216 and 241-243, and the locals assigned later in run
LocalsStart ==
    [subtractedExposure |-> "None", subtractRes |-> "None",
     selectSources |-> "None", kernelSources |-> "None",
     diaSources |-> NoSources, results |-> <<>>,
     templateExposure |-> "None", templateApCorr |-> 0, templatePsf |-> 0,
     preConvPsf |-> "None", preConvSigma |-> NoWidth,
     scienceMI |-> "calexp",
     scienceSigmaOrig |-> NoWidth, scienceSigmaPost |-> NoWidth,
     scienceFwhmPix |-> NoWidth, candidateList |-> "unset",
     templateReads |-> <<>>,
     differencePsf |-> "unset", apCorr |-> "unset",
     mask |-> NoMask, maskRead |-> NoMask, maskAtDetection |-> NoMask,
     src |-> <<>>, srcMatches |-> <<>>,
     refMatches |-> [none |-> TRUE, matches |-> <<>>]]

NoFactory == [upper |-> 0, lower |-> 0, sentinel |-> 0]

NoRef == [psf |-> FALSE, sigma |-> 0, src |-> FALSE, patches |-> <<>>,
          ccdExposureId |-> 0, ccdExposureId_bits |-> 0,
          differenceExp |-> "unread", apCorr |-> "unread", memo |-> NoMemo]

NoPrev == [attempts |-> 0, puts |-> <<>>]

NoReturn == [returned |-> FALSE, subtractedExposure |-> "None",
             subtractRes |-> "None", sources |-> NoSources]

TemplateIdle == [patchList |-> <<>>, i |-> 0, st |-> TemplateStart,
                 error |-> NoError, at |-> "idle"]

\* the exposure identifiers a repository hands out: the width of the
\* identifier and an identifier of that width
ExposureIds ==
    {[bits |-> IdBits - 2, id |-> 1],
     [bits |-> IdBits - 2, id |-> Pow2(IdBits - 2) - 1],
     [bits |-> IdBits - 3, id |-> 1]}

\* data references run can be given: which input datasets exist
DataRefs(psfs, patchLists, exposureIds) ==
    {[psf |-> p.psf, sigma |-> p.sigma, src |-> s, patches |-> pl,
      ccdExposureId |-> e.id, ccdExposureId_bits |-> e.bits,
      differenceExp |-> "unread", apCorr |-> "unread", memo |-> NoMemo] :
        p \in psfs, s \in BOOLEAN, pl \in patchLists, e \in exposureIds}

\* the "psf" dataset of the science exposure: missing, or a PSF of some width
NoPsf == [psf |-> FALSE, sigma |-> 0]

Psfs == {[psf |-> TRUE, sigma |-> w] : w \in {1, MaxSigma}}

\* the sky maps of Spec: no overlapping patch, or one patch with any of its
\* three datasets present or missing
OnePatch == {<<>>} \cup {<<p>> : p \in PatchData}

\* The inputs an invocation draws from: the data references, whether a
\* dataset read late is stored, whether the subtraction engine succeeds,
\* whether the difference exposure carries a PSF, the masks it can have, how
\* many footprints a detection returns, the centroids measured, the stored
\* "src" catalogs.
\* Spec explores every configuration over RunEnv; SpecMatch explores the
\* configurations of MatchConfigs over MatchEnv.
RunEnv ==
    [refs |-> DataRefs({NoPsf, [psf |-> TRUE, sigma |-> 1]}, OnePatch,
                       {[bits |-> IdBits - 2, id |-> 1]}),
     stored |-> BOOLEAN, engineOk |-> BOOLEAN, hasPsf |-> BOOLEAN,
     masks |-> {StaleMask},
     detCounts |-> {0, 1}, pos |-> {0}, priors |-> {<<>>, <<0>>}]

MatchEnv ==
    [refs |-> DataRefs(Psfs,
                       {<<[coadd |-> TRUE, psf |-> TRUE, apCorr |-> TRUE]>>},
                       ExposureIds),
     stored |-> {TRUE}, engineOk |-> {TRUE}, hasPsf |-> {TRUE},
     masks |-> {StaleMask},
     detCounts |-> 0..MaxDet, pos |-> Pos, priors |-> PriorCatalogs]

\* SpecLinkage: catalogs of MaxLinked transient sources at the two ends of
\* the axis, every stored "src" catalog, identifiers with room for them
LinkEnv ==
    [refs |-> DataRefs({[psf |-> TRUE, sigma |-> 1]},
                       {<<[coadd |-> TRUE, psf |-> TRUE, apCorr |-> TRUE]>>},
                       {[bits |-> 1, id |-> 1]}),
     stored |-> {TRUE}, engineOk |-> {TRUE}, hasPsf |-> {TRUE},
     masks |-> {StaleMask},
     detCounts |-> {MaxLinked}, pos |-> {0, MaxPos}, priors |-> PriorCatalogs]

\* SpecRetry: every mask and both kinds of difference exposure, one
\* overlapping patch, small catalogs
RetryEnv ==
    [refs |-> DataRefs({[psf |-> TRUE, sigma |-> 1]},
                       {<<[coadd |-> TRUE, psf |-> TRUE, apCorr |-> TRUE]>>},
                       {[bits |-> IdBits - 2, id |-> 1]}),
     stored |-> {TRUE}, engineOk |-> {TRUE}, hasPsf |-> BOOLEAN,
     masks |-> Masks,
     detCounts |-> 0..MaxPix, pos |-> {0}, priors |-> {<<0>>}]

RetryConfigs ==
    {c \in ImageDifferenceConfig :
        \A f \in FlagNames \ {"doSubtract", "doMerge", "convolveTemplate",
                              "doWriteMatchedExp", "doWriteSources",
                              "doWriteSubtractedExp"} :
            c[f] = DefaultConfig[f]}

MatchConfigs ==
    {c \in ImageDifferenceConfig :
        \A f \in FlagNames \ {"doSubtract", "doPreConvolve", "doMerge",
                              "doMatchSources"} :
            c[f] = DefaultConfig[f]}

LinkConfigs ==
    {c \in ImageDifferenceConfig :
        /\ c.doMatchSources /\ ~c.doPreConvolve /\ ~c.doMerge
        /\ \A f \in FlagNames \ {"doSubtract", "doPreConvolve", "doMerge",
                                 "doMatchSources"} :
              c[f] = DefaultConfig[f]}

Init ==
    /\ cfg \in ImageDifferenceConfig
    /\ pc = "validate"
    /\ err = NoError
    /\ repo = NoRef
    /\ puts = <<>>
    /\ loc = LocalsStart
    /\ idf = NoFactory
    /\ calls = <<>>
    /\ ret = NoReturn
    /\ tpl = TemplateIdle
    /\ cal = CalibrateIdle
    /\ prev = NoPrev
    /\ ing = IngestIdle

Raise(e) == /\ pc' = "error" /\ err' = e

Goto(l) == /\ pc' = l /\ err' = err

----------------------------------------------------------------------------
(* The invocation: validate, __init__, run *)

Validate ==
    /\ pc = "validate"
    /\ IF validate(cfg) # NoError THEN Raise(validate(cfg)) ELSE Goto("__init__")
    /\ UNCHANGED <<cfg, repo, puts, loc, idf, calls, ret, tpl, cal, prev, ing>>

Construct ==
    /\ pc = "__init__"
    /\ IF init_error(cfg) # NoError THEN Raise(init_error(cfg)) ELSE Goto("run")
    /\ UNCHANGED <<cfg, repo, puts, loc, idf, calls, ret, tpl, cal, prev, ing>>

\* lines 231-233
SciencePsfError_ignored(sensorRef) == NoError

SciencePsfError(sensorRef) ==
    IF ~sensorRef.psf THEN "TaskError@233" ELSE NoError

\* lines 209-243; a later invocation is given the same data reference
RunBeginIn(E) ==
    /\ pc = "run"
    /\ \E sensorRef \in IF prev.attempts = 0 THEN E.refs ELSE {repo} :
        /\ repo' = sensorRef
        /\ idf' = makeSource(sensorRef.ccdExposureId,
                             IdBits - sensorRef.ccdExposureId_bits)
        /\ IF SciencePsfError(sensorRef) # NoError
           THEN /\ Raise(SciencePsfError(sensorRef))
                /\ loc' = LocalsStart
           ELSE /\ Goto("L244")
                /\ loc' = [LocalsStart EXCEPT                  \* 237-239
                              !.scienceSigmaOrig = Width(sensorRef.sigma)]
    /\ UNCHANGED <<cfg, puts, calls, ret, tpl, cal, prev, ing>>

\* the assignment `templateExposure, templateApCorr = self.getTemplate(...)`
\* of lines 245, 323 and 353 and the statement after it (which assigns the
\* locals of `more` and makes the calls `then`), continuing at `next`
CallGetTemplate(next, more, then) ==
    LET r == getTemplate(repo.patches) IN
    /\ IF r.error # NoError
       THEN /\ Raise(r.error)
            /\ loc' = [loc EXCEPT !.templateReads = @ \o DatasetReads(r.st)]
            /\ calls' = Append(calls, "getTemplate")
       ELSE /\ Goto(next)
            /\ calls' = Append(calls, "getTemplate") \o then
            /\ loc' = [k \in DOMAIN loc |->
                         IF k = "templateExposure" THEN "template"
                         ELSE IF k = "templatePsf" THEN r.st.coaddPsf
                         ELSE IF k = "templateApCorr" THEN r.st.coaddApCorr
                         ELSE IF k = "templateReads"
                              THEN loc[k] \o DatasetReads(r.st)
                         ELSE IF k \in DOMAIN more THEN more[k]
                         ELSE loc[k]]

NoMore == [x \in {} |-> 0]

\* lines 244-245
TemplateForSubtract ==
    /\ pc = "L244"
    /\ IF cfg.doSubtract
       THEN CallGetTemplate("L251", NoMore, <<>>)
       ELSE /\ Goto("L313")
            /\ UNCHANGED <<loc, calls>>
    /\ UNCHANGED <<cfg, repo, puts, idf, ret, tpl, cal, prev, ing>>

\* lines 251-268
PreConvolve ==
    /\ pc = "L251"
    /\ IF ~cfg.doPreConvolve
       THEN /\ Goto("L271")
            /\ loc' = [loc EXCEPT !.scienceSigmaPost =                 \* 268
                          scienceSigmaPost(cfg, loc.scienceSigmaOrig)]
            /\ calls' = calls
       ELSE IF cfg.useGaussianForPreConvolution
       THEN /\ Goto("L271")
            /\ loc' = [loc EXCEPT !.preConvPsf = "SingleGaussian",     \* 260
                                  !.preConvSigma = loc.scienceSigmaOrig,
                                  !.scienceMI = "convolved",           \* 265
                                  !.scienceSigmaPost =                 \* 266
                          scienceSigmaPost(cfg, loc.scienceSigmaOrig)]
            /\ calls' = Append(calls, "convolve")
       ELSE \* line 263 reads the name psf, which nothing binds
            /\ Raise("NameError@263")
            /\ UNCHANGED <<loc, calls>>
    /\ UNCHANGED <<cfg, repo, puts, idf, ret, tpl, cal, prev, ing>>

\* lines 271-296
SelectSources_unfiltered ==
    /\ pc = "L271"
    /\ IF ~cfg.doSelectSources
       THEN /\ Goto("L301")
            /\ UNCHANGED <<loc, calls>>
       ELSE IF ~repo.src
       THEN /\ Raise("AttributeError@281")
            /\ UNCHANGED <<loc, calls>>
       ELSE /\ Goto("L301")
            /\ loc' = [loc EXCEPT !.selectSources = "src",
                                  !.kernelSources = "src"]
            /\ calls' = calls \o <<"useKnownWcs">>
    /\ UNCHANGED <<cfg, repo, puts, idf, ret, tpl, cal, prev, ing>>

SelectSources ==
    /\ pc = "L271"
    /\ IF ~cfg.doSelectSources
       THEN /\ Goto("L301")
            /\ UNCHANGED <<loc, calls>>
       ELSE IF ~repo.src
       THEN \* the arguments of the call at 277-282 are evaluated first, and
            \* line 281 reads self.doPreConvolve, which the task does not have
            /\ Raise("AttributeError@281")
            /\ UNCHANGED <<loc, calls>>
       ELSE /\ Goto("L301")
            /\ loc' = [loc EXCEPT !.selectSources = "src",
                                  !.kernelSources = "selected"]
            /\ calls' = calls \o <<"useKnownWcs", "selectSources">>
    /\ UNCHANGED <<cfg, repo, puts, idf, ret, tpl, cal, prev, ing>>

\* what subtractExposures can give: an exception, or a difference exposure
\* with some mask, with or without a PSF
ExposuresOf(E) ==
    {[mask |-> m, psf |-> IF h THEN "own" ELSE "none"] :
        m \in E.masks, h \in E.hasPsf}

EngineResults(E) ==
    {[ok |-> FALSE, exposure |-> [mask |-> NoMask, psf |-> "none"]] :
        b \in E.engineOk \ {TRUE}}
    \cup {[ok |-> TRUE, exposure |-> x] :
            x \in IF TRUE \in E.engineOk THEN ExposuresOf(E) ELSE {}}

\* the arguments of the call at 301-307
EngineArgs ==
    [scienceExposure |-> loc.scienceMI,
     scienceFwhmPix |-> scienceFwhmPix(loc.scienceSigmaPost),
     candidateList |-> loc.kernelSources]

\* lines 301-308; the engine succeeds or raises
SubtractExposuresIn_swallowed(E) ==
    /\ pc = "L301"
    /\ calls' = Append(calls, "subtractExposures")
    /\ \E res \in Answer(repo.memo.subtract, EngineArgs, EngineResults(E)) :
        /\ repo' = [repo EXCEPT !.memo.subtract = Remember(@, EngineArgs, res)]
        /\ IF res.ok
           THEN /\ Goto("L310")
                /\ loc' = [loc EXCEPT
                            !.scienceFwhmPix = EngineArgs.scienceFwhmPix,
                            !.candidateList = EngineArgs.candidateList,
                            !.subtractRes = "res",
                            !.subtractedExposure = "subtracted",
                            !.mask = res.exposure.mask,
                            !.differencePsf = res.exposure.psf]
           ELSE /\ Goto("L313")
                /\ loc' = [loc EXCEPT
                            !.scienceFwhmPix = EngineArgs.scienceFwhmPix,
                            !.candidateList = EngineArgs.candidateList]
    /\ UNCHANGED <<cfg, puts, idf, ret, tpl, cal, prev, ing>>

SubtractExposuresIn(E) ==
    /\ pc = "L301"
    /\ calls' = Append(calls, "subtractExposures")
    /\ \E res \in Answer(repo.memo.subtract, EngineArgs, EngineResults(E)) :
        /\ repo' = [repo EXCEPT !.memo.subtract = Remember(@, EngineArgs, res)]
        /\ IF res.ok
           THEN /\ Goto("L310")
                /\ loc' = [loc EXCEPT
                            !.scienceFwhmPix = EngineArgs.scienceFwhmPix,
                            !.candidateList = EngineArgs.candidateList,
                            !.subtractRes = "res",
                            !.subtractedExposure = "subtracted",
                            !.mask = res.exposure.mask,
                            !.differencePsf = res.exposure.psf]
           ELSE /\ Raise("EngineError@301")
                /\ loc' = [loc EXCEPT
                            !.scienceFwhmPix = EngineArgs.scienceFwhmPix,
                            !.candidateList = EngineArgs.candidateList]
    /\ UNCHANGED <<cfg, puts, idf, ret, tpl, cal, prev, ing>>

\* sensorRef.put: the log of the writes, and what the repository holds for a
\* dataset after them: nothing, or the last value written
Put(value, dataset, detail) ==
    puts' = Append(puts, [dataset |-> dataset, value |-> value, detail |-> detail])

Written(log, dataset) ==
    LET at == {i \in 1..Len(log) : log[i].dataset = dataset} IN
    IF at = {} THEN <<>>
    ELSE <<log[CHOOSE i \in at : \A j \in at : j <= i]>>

\* lines 310-311
WriteMatchedExp ==
    /\ pc = "L310"
    /\ IF cfg.doWriteMatchedExp
       THEN Put("matchedExposure", "Diff_matchedExp", <<>>)
       ELSE puts' = puts
    /\ Goto("L313")
    /\ UNCHANGED <<cfg, repo, loc, idf, calls, ret, tpl, cal, prev, ing>>

\* lines 313-315: the difference exposure an earlier invocation wrote, or
\* else the one the repository was given, if any
GetDifferenceIn(E) ==
    /\ pc = "L313"
    /\ IF ~cfg.doDetection
       THEN /\ Goto("L395")
            /\ UNCHANGED <<loc, repo>>
       ELSE IF loc.subtractedExposure # "None"
       THEN /\ Goto("L318")
            /\ UNCHANGED <<loc, repo>>
       ELSE IF Written(puts, "Diff_differenceExp") # <<>>
       THEN LET w == Written(puts, "Diff_differenceExp")[1] IN
            /\ Goto("L318")
            /\ repo' = repo
            /\ loc' = [loc EXCEPT !.subtractedExposure = "stored",
                                  !.mask = w.detail.mask,
                                  !.differencePsf = w.detail.psf]
       ELSE \E stored \in IF repo.differenceExp = "unread" THEN E.stored
                          ELSE {repo.differenceExp = "present"} :
            IF stored
            THEN \E x \in Answer(repo.memo.differenceExp, "get", ExposuresOf(E)) :
                 /\ Goto("L318")
                 /\ repo' = [repo EXCEPT
                               !.differenceExp = "present",
                               !.memo.differenceExp = Remember(@, "get", x)]
                 /\ loc' = [loc EXCEPT !.subtractedExposure = "stored",
                                       !.mask = x.mask,
                                       !.differencePsf = x.psf]
            ELSE /\ Raise("ButlerError@315")
                 /\ repo' = [repo EXCEPT !.differenceExp = "absent"]
                 /\ loc' = loc
    /\ UNCHANGED <<cfg, puts, idf, calls, ret, tpl, cal, prev, ing>>

\* lines 318-324
SetDifferencePsf ==
    /\ pc = "L318"
    /\ IF loc.differencePsf # "none"
       THEN /\ Goto("L327")
            /\ UNCHANGED <<loc, calls>>
       ELSE IF cfg.convolveTemplate
       THEN /\ Goto("L327")
            /\ loc' = [loc EXCEPT !.differencePsf = "science"]
            /\ calls' = calls
       ELSE IF loc.templateExposure = "None"
       THEN CallGetTemplate("L327", [differencePsf |-> "template"], <<>>)
       ELSE /\ Goto("L327")
            /\ loc' = [loc EXCEPT !.differencePsf = "template"]
            /\ calls' = calls
    /\ UNCHANGED <<cfg, repo, puts, idf, ret, tpl, cal, prev, ing>>

\* the exposure given to detection.makeSourceCatalog
DetectionInput(mask) == [mask |-> mask, psf |-> loc.differencePsf]

\* lines 327-336: the detection planes are cleared, the table shares
\* idFactory, and the detection task makes one record for each footprint it
\* finds and marks the footprints in the mask
DetectIn(E) ==
    /\ pc = "L327"
    /\ calls' = Append(calls, "detection")
    /\ LET cleared == ClearDetected(loc.mask) IN
       \E n \in Answer(repo.memo.detection, DetectionInput(cleared), E.detCounts) :
        /\ repo' = [repo EXCEPT !.memo.detection =
                                    Remember(@, DetectionInput(cleared), n)]
        /\ IF CanAllocate(idf, n)
           THEN /\ Goto("L338")
                /\ loc' = [loc EXCEPT !.maskRead = loc.mask,
                                      !.maskAtDetection = cleared,
                                      !.mask = SetDetected(cleared, n),
                                      !.results = NewRecords(idf, n)]
                /\ idf' = Advance(idf, n)
           ELSE /\ Raise("LengthError@332")
                /\ loc' = [loc EXCEPT !.maskRead = loc.mask,
                                      !.maskAtDetection = cleared,
                                      !.mask = cleared]
                /\ idf' = idf
    /\ UNCHANGED <<cfg, puts, ret, tpl, cal, prev, ing>>

\* how many sources the merged footprint set of n footprints can hold
MergedCounts(n) == IF n = 0 THEN {0} ELSE 1..n

\* lines 338-346
Merge ==
    /\ pc = "L338"
    /\ IF cfg.doMerge
       THEN \E m \in Answer(repo.memo.merge, loc.results,
                            MergedCounts(Len(loc.results))) :
            /\ repo' = [repo EXCEPT !.memo.merge = Remember(@, loc.results, m)]
            /\ IF CanAllocate(idf, m)
               THEN /\ Goto("L348")
                    /\ loc' = [loc EXCEPT !.diaSources = Sources(NewRecords(idf, m))]
                    /\ idf' = Advance(idf, m)
               ELSE /\ Raise("LengthError@343")
                    /\ UNCHANGED <<loc, idf>>
       ELSE /\ Goto("L348")
            /\ loc' = [loc EXCEPT !.diaSources = Sources(loc.results)]
            /\ UNCHANGED <<idf, repo>>
    /\ UNCHANGED <<cfg, puts, calls, ret, tpl, cal, prev, ing>>

\* measurement.run gives every record its centroid
Measured(recs, centroid) == [i \in 1..Len(recs) |-> [recs[i] EXCEPT !.pos = centroid[i]]]

\* lines 348-355
MeasureIn(E) ==
    /\ pc = "L348"
    /\ IF ~cfg.doMeasurement
       THEN /\ Goto("L358")
            /\ UNCHANGED <<loc, repo, calls>>
       ELSE LET recs == loc.diaSources.recs IN
            \E centroid \in Answer(repo.memo.measurement, recs,
                                   [1..Len(recs) -> E.pos]) :
            LET measured == Sources(Measured(recs, centroid))
                known == Remember(repo.memo.measurement, recs, centroid) IN
            IF cfg.convolveTemplate
            THEN \E stored \in IF repo.apCorr = "unread" THEN E.stored
                               ELSE {repo.apCorr = "present"} :
                 IF stored
                 THEN /\ Goto("L358")
                      /\ repo' = [repo EXCEPT !.apCorr = "present",
                                              !.memo.measurement = known]
                      /\ loc' = [loc EXCEPT !.apCorr = "apCorr",
                                            !.diaSources = measured]
                      /\ calls' = Append(calls, "measurement")
                 ELSE /\ Raise("ButlerError@350")
                      /\ repo' = [repo EXCEPT !.apCorr = "absent"]
                      /\ UNCHANGED <<loc, calls>>
            ELSE IF loc.templateApCorr = 0
            THEN /\ CallGetTemplate("L358", [apCorr |-> "templateApCorr",
                                             diaSources |-> measured],
                                    <<"measurement">>)
                 /\ repo' = [repo EXCEPT !.memo.measurement = known]
            ELSE /\ Goto("L358")
                 /\ loc' = [loc EXCEPT !.apCorr = "templateApCorr",
                                       !.diaSources = measured]
                 /\ calls' = Append(calls, "measurement")
                 /\ repo' = [repo EXCEPT !.memo.measurement = known]
    /\ UNCHANGED <<cfg, puts, idf, ret, tpl, cal, prev, ing>>

\* lines 358-388
MatchSourcesIn(E) ==
    /\ pc = "L358"
    /\ IF ~cfg.doMatchSources
       THEN /\ Goto("L390")
            /\ UNCHANGED <<loc, calls, repo>>
       ELSE IF ~repo.src
       THEN \* srcMatchDict = {} at 369; line 372 then reads matchRadAsec,
            \* which only line 361 assigns
            /\ Raise("UnboundLocalError@372")
            /\ UNCHANGED <<loc, calls, repo>>
       ELSE \E src \in Answer(repo.memo.src, "get", E.priors) :
            \E astromRet \in Answer(repo.memo.astrometry, loc.diaSources.recs,
                                    RefMatchResults(Len(loc.diaSources.recs))) :
            LET recs == loc.diaSources.recs
                srcMatches == matchXy(src, recs, Len(src))
                refMatches == RefPairs(astromRet.matches, recs) IN
            /\ Goto("L390")
            /\ repo' = [repo EXCEPT
                          !.memo.src = Remember(@, "get", src),
                          !.memo.astrometry = Remember(@, recs, astromRet)]
            /\ loc' = [loc EXCEPT
                        !.src = src,
                        !.srcMatches = srcMatches,
                        !.refMatches = astromRet,
                        !.diaSources =
                            Sources(AssignMatchIds(recs, srcMatches, refMatches))]
            /\ calls' = calls \o <<"matchXy", "useKnownWcs">>
    /\ UNCHANGED <<cfg, puts, idf, ret, tpl, cal, prev, ing>>

\* lines 390-393
WriteSources ==
    /\ pc = "L390"
    /\ IF ~loc.diaSources.none /\ cfg.doWriteSources
       THEN IF cfg.doWriteHeavyFootprintsInSources
            THEN \* line 392 reads the name sources, which nothing binds
                 /\ Raise("NameError@392")
                 /\ puts' = puts
            ELSE /\ Goto("L395")
                 /\ Put("diaSources", "Diff_diaSrc", loc.diaSources.recs)
       ELSE /\ Goto("L395")
            /\ puts' = puts
    /\ UNCHANGED <<cfg, repo, loc, idf, calls, ret, tpl, cal, prev, ing>>

\* lines 395-396
WriteSubtractedExp ==
    /\ pc = "L395"
    /\ IF cfg.doWriteSubtractedExp
       THEN Put(loc.subtractedExposure, "Diff_differenceExp",
                [mask |-> loc.mask, psf |-> loc.differencePsf])
       ELSE puts' = puts
    /\ Goto("L398")
    /\ UNCHANGED <<cfg, repo, loc, idf, calls, ret, tpl, cal, prev, ing>>

\* lines 398-403
Return_detectionOnly ==
    /\ pc = "L398"
    /\ ret' = [returned |-> TRUE,
               subtractedExposure |-> loc.subtractedExposure,
               subtractRes |-> "None",
               sources |-> loc.diaSources]
    /\ Goto("done")
    /\ UNCHANGED <<cfg, repo, puts, loc, idf, calls, tpl, cal, prev, ing>>

Return ==
    /\ pc = "L398"
    /\ ret' = [returned |-> TRUE,
               subtractedExposure |-> loc.subtractedExposure,
               subtractRes |-> loc.subtractRes,
               sources |-> loc.diaSources]
    /\ Goto("done")
    /\ UNCHANGED <<cfg, repo, puts, loc, idf, calls, tpl, cal, prev, ing>>

\* the steps of Spec
RunBegin == RunBeginIn(RunEnv)
SubtractExposures == SubtractExposuresIn(RunEnv)
GetDifference == GetDifferenceIn(RunEnv)
Detect == DetectIn(RunEnv)
Measure == MeasureIn(RunEnv)
MatchSources == MatchSourcesIn(RunEnv)

Next ==
    \/ Validate
    \/ Construct
    \/ RunBegin
    \/ TemplateForSubtract
    \/ PreConvolve
    \/ SelectSources
    \/ SubtractExposures
    \/ WriteMatchedExp
    \/ GetDifference
    \/ SetDifferencePsf
    \/ Detect
    \/ Merge
    \/ Measure
    \/ MatchSources
    \/ WriteSources
    \/ WriteSubtractedExp
    \/ Return

Spec == Init /\ [][Next]_vars

\* the steps of SpecMatch
InitMatch ==
    /\ cfg \in MatchConfigs
    /\ pc = "validate"
    /\ err = NoError
    /\ repo = NoRef
    /\ puts = <<>>
    /\ loc = LocalsStart
    /\ idf = NoFactory
    /\ calls = <<>>
    /\ ret = NoReturn
    /\ tpl = TemplateIdle
    /\ cal = CalibrateIdle
    /\ prev = NoPrev
    /\ ing = IngestIdle

MatchRunBegin == RunBeginIn(MatchEnv)
MatchSubtractExposures == SubtractExposuresIn(MatchEnv)
MatchGetDifference == GetDifferenceIn(MatchEnv)
MatchDetect == DetectIn(MatchEnv)
MatchMeasure == MeasureIn(MatchEnv)
MatchMatchSources == MatchSourcesIn(MatchEnv)

NextMatch ==
    \/ Validate
    \/ Construct
    \/ MatchRunBegin
    \/ TemplateForSubtract
    \/ PreConvolve
    \/ SelectSources
    \/ MatchSubtractExposures
    \/ WriteMatchedExp
    \/ MatchGetDifference
    \/ SetDifferencePsf
    \/ MatchDetect
    \/ Merge
    \/ MatchMeasure
    \/ MatchMatchSources
    \/ WriteSources
    \/ WriteSubtractedExp
    \/ Return

SpecMatch == InitMatch /\ [][NextMatch]_vars

----------------------------------------------------------------------------
(* run with catalogs large enough for every combination of the match fields *)

InitLinkage ==
    /\ cfg \in LinkConfigs
    /\ pc = "validate"
    /\ err = NoError
    /\ repo = NoRef
    /\ puts = <<>>
    /\ loc = LocalsStart
    /\ idf = NoFactory
    /\ calls = <<>>
    /\ ret = NoReturn
    /\ tpl = TemplateIdle
    /\ cal = CalibrateIdle
    /\ prev = NoPrev
    /\ ing = IngestIdle

LinkRunBegin == RunBeginIn(LinkEnv)
LinkSubtractExposures == SubtractExposuresIn(LinkEnv)
LinkGetDifference == GetDifferenceIn(LinkEnv)
LinkDetect == DetectIn(LinkEnv)
LinkMeasure == MeasureIn(LinkEnv)
LinkMatchSources == MatchSourcesIn(LinkEnv)

NextLinkage ==
    \/ Validate
    \/ Construct
    \/ LinkRunBegin
    \/ TemplateForSubtract
    \/ PreConvolve
    \/ SelectSources
    \/ LinkSubtractExposures
    \/ WriteMatchedExp
    \/ LinkGetDifference
    \/ SetDifferencePsf
    \/ LinkDetect
    \/ Merge
    \/ LinkMeasure
    \/ LinkMatchSources
    \/ WriteSources
    \/ WriteSubtractedExp
    \/ Return

SpecLinkage == InitLinkage /\ [][NextLinkage]_vars

----------------------------------------------------------------------------
(* the same command run twice on one data reference *)

InitRetry ==
    /\ cfg \in RetryConfigs
    /\ pc = "validate"
    /\ err = NoError
    /\ repo = NoRef
    /\ puts = <<>>
    /\ loc = LocalsStart
    /\ idf = NoFactory
    /\ calls = <<>>
    /\ ret = NoReturn
    /\ tpl = TemplateIdle
    /\ cal = CalibrateIdle
    /\ prev = NoPrev
    /\ ing = IngestIdle

\* The command is run again with the same configuration on the same data
\* reference, after an invocation that returned or one that was stopped
\* after its k-th put: the repository keeps the first k writes, the new
\* process starts from validate with nothing in memory. prev keeps the
\* writes of the whole first invocation.
Retry ==
    /\ pc = "done"
    /\ prev.attempts = 0
    /\ \E k \in 0..Len(puts) : puts' = SubSeq(puts, 1, k)
    /\ prev' = [attempts |-> 1, puts |-> puts]
    /\ pc' = "validate"
    /\ err' = NoError
    /\ loc' = LocalsStart
    /\ idf' = NoFactory
    /\ calls' = <<>>
    /\ ret' = NoReturn
    /\ UNCHANGED <<cfg, repo, tpl, cal, ing>>

RetryRunBegin == RunBeginIn(RetryEnv)
RetrySubtractExposures == SubtractExposuresIn(RetryEnv)
RetryGetDifference == GetDifferenceIn(RetryEnv)
RetryDetect == DetectIn(RetryEnv)
RetryMeasure == MeasureIn(RetryEnv)
RetryMatchSources == MatchSourcesIn(RetryEnv)

NextRetry ==
    \/ Validate
    \/ Construct
    \/ RetryRunBegin
    \/ TemplateForSubtract
    \/ PreConvolve
    \/ SelectSources
    \/ RetrySubtractExposures
    \/ WriteMatchedExp
    \/ RetryGetDifference
    \/ SetDifferencePsf
    \/ RetryDetect
    \/ Merge
    \/ RetryMeasure
    \/ RetryMatchSources
    \/ WriteSources
    \/ WriteSubtractedExp
    \/ Return
    \/ Retry

SpecRetry == InitRetry /\ [][NextRetry]_vars

----------------------------------------------------------------------------
(* getTemplate, one patch per step *)

InitTemplate ==
    /\ cfg = DefaultConfig
    /\ pc = "getTemplate"
    /\ err = NoError
    /\ repo = NoRef
    /\ puts = <<>>
    /\ loc = LocalsStart
    /\ idf = NoFactory
    /\ calls = <<>>
    /\ ret = NoReturn
    /\ tpl \in {[patchList |-> pl, i |-> 0, st |-> TemplateStart,
                 error |-> NoError, at |-> "L488"] :
                    pl \in SeqsUpTo(PatchData, MaxPatches)}
    /\ cal = CalibrateIdle
    /\ prev = NoPrev
    /\ ing = IngestIdle

\* lines 488-513
TemplateBegin ==
    /\ tpl.at = "L488"
    /\ tpl' = IF tpl.patchList = <<>>
              THEN [tpl EXCEPT !.at = "raised", !.error = "RuntimeError@497"]
              ELSE [tpl EXCEPT !.at = "L514", !.st = TemplateStart]
    /\ UNCHANGED <<cfg, pc, err, repo, puts, loc, idf, calls, ret, cal, prev, ing>>

\* lines 514-559, one pass
TemplatePatch ==
    /\ tpl.at = "L514"
    /\ tpl.i < Len(tpl.patchList)
    /\ tpl' = [tpl EXCEPT !.i = @ + 1,
                          !.st = PatchBody(@, tpl.i + 1, tpl.patchList[tpl.i + 1])]
    /\ UNCHANGED <<cfg, pc, err, repo, puts, loc, idf, calls, ret, cal, prev, ing>>

\* lines 561-568
TemplateEnd ==
    /\ tpl.at = "L514"
    /\ tpl.i = Len(tpl.patchList)
    /\ tpl' = IF TemplateError(tpl.st) # NoError
              THEN [tpl EXCEPT !.at = "raised", !.error = TemplateError(tpl.st)]
              ELSE [tpl EXCEPT !.at = "returned"]
    /\ UNCHANGED <<cfg, pc, err, repo, puts, loc, idf, calls, ret, cal, prev, ing>>

NextTemplate ==
    \/ TemplateBegin
    \/ TemplatePatch
    \/ TemplateEnd

SpecTemplate == InitTemplate /\ [][NextTemplate]_vars

----------------------------------------------------------------------------
(* getTemplate with the pixels of the template, one patch per step *)

InitStitch ==
    /\ cfg = DefaultConfig
    /\ pc = "getTemplate"
    /\ err = NoError
    /\ repo = NoRef
    /\ puts = <<>>
    /\ loc = LocalsStart
    /\ idf = NoFactory
    /\ calls = <<>>
    /\ ret = NoReturn
    /\ \E n \in 0..MaxStitched :
         \E pl \in [1..n -> StitchPatches] :
            tpl = [patchList |-> pl, i |-> 0, st |-> TemplateStart,
                   error |-> NoError, at |-> "L488",
                   coaddBBox |-> Box2I, image |-> <<>>]
    /\ cal = CalibrateIdle
    /\ prev = NoPrev
    /\ ing = IngestIdle

\* lines 488-513
StitchBegin ==
    /\ tpl.at = "L488"
    /\ tpl' = IF tpl.patchList = <<>>
              THEN [tpl EXCEPT !.at = "raised", !.error = "RuntimeError@497"]
              ELSE LET bbox == coaddBBox(tpl.patchList, Len(tpl.patchList)) IN
                   [tpl EXCEPT !.at = "L514", !.st = TemplateStart,
                               !.coaddBBox = bbox,
                               !.image = BlankTemplate(bbox)]
    /\ UNCHANGED <<cfg, pc, err, repo, puts, loc, idf, calls, ret, cal, prev, ing>>

\* lines 514-559, one pass
StitchPatch ==
    /\ tpl.at = "L514"
    /\ tpl.i < Len(tpl.patchList)
    /\ LET patch == tpl.patchList[tpl.i + 1] IN
       tpl' = [tpl EXCEPT !.i = @ + 1,
                          !.st = PatchBody(@, tpl.i + 1, patch),
                          !.image = IF patch.coadd
                                    THEN CopyPatch(@, tpl.i + 1, patch.outerBBox)
                                    ELSE @]
    /\ UNCHANGED <<cfg, pc, err, repo, puts, loc, idf, calls, ret, cal, prev, ing>>

\* lines 561-568
StitchEnd ==
    /\ tpl.at = "L514"
    /\ tpl.i = Len(tpl.patchList)
    /\ tpl' = IF TemplateError(tpl.st) # NoError
              THEN [tpl EXCEPT !.at = "raised", !.error = TemplateError(tpl.st)]
              ELSE [tpl EXCEPT !.at = "returned"]
    /\ UNCHANGED <<cfg, pc, err, repo, puts, loc, idf, calls, ret, cal, prev, ing>>

NextStitch ==
    \/ StitchBegin
    \/ StitchPatch
    \/ StitchEnd

SpecStitch == InitStitch /\ [][NextStitch]_vars

----------------------------------------------------------------------------
(* IngestTask.run, one file per step *)

InitIngest ==
    /\ cfg = DefaultConfig
    /\ pc = "ingest"
    /\ err = NoError
    /\ repo = NoRef
    /\ puts = <<>>
    /\ loc = LocalsStart
    /\ idf = NoFactory
    /\ calls = <<>>
    /\ ret = NoReturn
    /\ tpl = TemplateIdle
    /\ cal = CalibrateIdle
    /\ prev = NoPrev
    /\ ing \in {IngestStart(a, r) : a \in IngestArgs, r \in Registries}

\* line 314
IngestBegin ==
    /\ ing.at = "L314"
    /\ ing' = [ing EXCEPT
                !.at = "L315",
                !.registry = IF ing.args.dryrun THEN @
                             ELSE openRegistry(@, ing.args.create)]
    /\ UNCHANGED <<cfg, pc, err, repo, puts, loc, idf, calls, ret, tpl, cal, prev>>

\* lines 315-322, one pass of the loop
IngestFile ==
    /\ ing.at = "L315"
    /\ ing.i < Len(ing.args.files)
    /\ \E isdir \in BOOLEAN, outcome \in FsOutcomes :
        LET k == ing.i + 1
            got == getInfo(ing.args.files[k], ing.defaultInfo)
            moved == ingest(k, ing.args.mode, ing.args.dryrun, isdir, outcome)
            parsed == [ing EXCEPT !.i = k,
                                  !.defaultInfo = got.defaultInfo,
                                  !.fileInfo = got.phuInfo,
                                  !.done = @ \o moved.done]
            added == addRows(ing.registry, got.hduInfoList,
                             Len(got.hduInfoList), ing.args.dryrun) IN
        ing' = IF moved.error # NoError
               THEN [parsed EXCEPT !.at = "raised", !.error = moved.error]
               ELSE IF ~moved.ingested THEN parsed                   \* 319-320
               ELSE IF added.error # NoError
               THEN [parsed EXCEPT !.at = "raised", !.error = added.error,
                                   !.registry = added.reg]
               ELSE [parsed EXCEPT !.registry = added.reg]
    /\ UNCHANGED <<cfg, pc, err, repo, puts, loc, idf, calls, ret, tpl, cal, prev>>

\* lines 323-325
IngestEnd ==
    /\ ing.at = "L315"
    /\ ing.i = Len(ing.args.files)
    /\ ing' = [ing EXCEPT
                !.at = "returned",
                !.registry = IF ing.args.dryrun THEN @
                             ELSE [addVisits(@, FALSE) EXCEPT
                                        !.committed = TRUE]]
    /\ UNCHANGED <<cfg, pc, err, repo, puts, loc, idf, calls, ret, tpl, cal, prev>>

NextIngest ==
    \/ IngestBegin
    \/ IngestFile
    \/ IngestEnd

SpecIngest == InitIngest /\ [][NextIngest]_vars

----------------------------------------------------------------------------
(* CalibrateTask.run, one block of the method per step *)

InitCalibrate ==
    /\ cfg = DefaultConfig
    /\ pc = "calibrate"
    /\ err = NoError
    /\ repo = NoRef
    /\ puts = <<>>
    /\ loc = LocalsStart
    /\ idf = NoFactory
    /\ calls = <<>>
    /\ ret = NoReturn
    /\ tpl = TemplateIdle
    /\ cal \in {CalStart(c, x) : c \in CalibrateConfig, x \in GivenExposures}
    /\ prev = NoPrev
    /\ ing = IngestIdle

\* lines 108-119
CalValidate ==
    /\ cal.at = "validate"
    /\ cal' = IF CalibrateConfig_validate(cal.config) # NoError
              THEN CalRaise(cal, CalibrateConfig_validate(cal.config))
              ELSE [cal EXCEPT !.at = "L172"]
    /\ UNCHANGED <<cfg, pc, err, repo, puts, loc, idf, calls, ret, tpl, prev, ing>>

\* lines 172-192: initial PSF, repair, background, detection
CalBegin ==
    /\ cal.at = "L172"
    /\ cal' = [cal EXCEPT
                !.at = "L194",
                !.backgrounds = IF cal.config.doBackground THEN 1 ELSE 0,
                !.sources = "sources",
                !.calls = @ \o <<"installInitialPsf", "repair">>
                            \o (IF cal.config.doBackground
                                THEN <<"estimateBackground">> ELSE <<>>)
                            \o <<"detection">>]
    /\ UNCHANGED <<cfg, pc, err, repo, puts, loc, idf, calls, ret, tpl, prev, ing>>

\* what astrometry.run can give as matches
AstrometryMatches == {"matches", "None"}

\* lines 194-208
CalMeasurePsf ==
    /\ cal.at = "L194"
    /\ IF cal.config.doPsf
       THEN \E m \in IF cal.config.doAstrometry THEN AstrometryMatches
                      ELSE {"None"} :
            cal' = [cal EXCEPT
                     !.at = "L212",
                     !.matches = m,
                     !.psf = "psf",
                     !.cellSet = "cellSet",
                     !.calls = @ \o <<"initialMeasurement">>
                                 \o (IF cal.config.doAstrometry
                                     THEN <<"astrometry">> ELSE <<>>)
                                 \o <<"measurePsf">>]
       ELSE cal' = [cal EXCEPT !.at = "L212"]
    /\ UNCHANGED <<cfg, pc, err, repo, puts, loc, idf, calls, ret, tpl, prev, ing>>

\* lines 212-231: repair and background again, then the measurement
CalSecondPass ==
    /\ cal.at = "L212"
    /\ cal' = [cal EXCEPT
                !.at = "L233",
                !.backgrounds = IF cal.config.doBackground THEN @ + 1 ELSE @,
                !.calls = @ \o (IF cal.config.doPsf THEN <<"repair">> ELSE <<>>)
                            \o (IF cal.config.doBackground
                                THEN <<"estimateBackground">> ELSE <<>>)
                            \o (IF cal.config.doComputeApCorr
                                   \/ cal.config.doAstrometry
                                   \/ cal.config.doPhotoCal
                                THEN <<"measurement">> ELSE <<>>)]
    /\ UNCHANGED <<cfg, pc, err, repo, puts, loc, idf, calls, ret, tpl, prev, ing>>

\* lines 233-241
CalApCorr ==
    /\ cal.at = "L233"
    /\ cal' =
        IF cal.config.doComputeApCorr /\ ~cal.config.doPsf
        THEN CalRaise(cal, "AssertionError@234")
        ELSE IF cal.config.doApplyApCorr /\ ~cal.config.doComputeApCorr
        THEN CalRaise(cal, "AssertionError@240")
        ELSE [cal EXCEPT
                !.at = "L243",
                !.apCorr = IF cal.config.doComputeApCorr THEN "apCorr"
                           ELSE "None",
                !.calls = @ \o (IF cal.config.doComputeApCorr
                                THEN <<"computeApCorr">> ELSE <<>>)
                            \o (IF cal.config.doApplyApCorr
                                THEN <<"applyApCorr">> ELSE <<>>)]
    /\ UNCHANGED <<cfg, pc, err, repo, puts, loc, idf, calls, ret, tpl, prev, ing>>

\* lines 243-248
CalAstrometry ==
    /\ cal.at = "L243"
    /\ IF cal.config.doAstrometry
       THEN \E m \in AstrometryMatches :
            cal' = [cal EXCEPT !.at = "L250",
                               !.matches = m,
                               !.matchMeta = "matchMeta",
                               !.calls = Append(@, "astrometry")]
       ELSE cal' = [cal EXCEPT !.at = "L250",
                               !.matches = "None",
                               !.matchMeta = "None"]
    /\ UNCHANGED <<cfg, pc, err, repo, puts, loc, idf, calls, ret, tpl, prev, ing>>

\* photocal.run returns its result or raises an Exception
PhotoCalOutcomes == {"returned", "raised"}

\* lines 252-272: the try block and what follows it
PhotoCalStep_propagates(c, outcome) ==
    IF outcome = "raised"
    THEN [CalRaise(c, "Exception@253") EXCEPT
            !.photocal = outcome,
            !.calls = Append(@, "photocal")]
    ELSE [c EXCEPT
            !.at = "L276",
            !.photocal = outcome,
            !.calls = Append(@, "photocal"),
            !.photocalRet = "photocalRet",
            !.log = @ \o <<"info@259">>,
            !.exposure.fluxMag0 = "new",
            !.exposure.metadata = [k \in MagKeys |-> "new"]]

PhotoCalStep(c, outcome) ==
    IF outcome = "raised"
    THEN [c EXCEPT
            !.at = "L276",
            !.photocal = outcome,
            !.calls = Append(@, "photocal"),
            !.photocalRet = "None",                               \* 256
            !.log = Append(@, "warn@255")]
    ELSE [c EXCEPT
            !.at = "L276",
            !.photocal = outcome,
            !.calls = Append(@, "photocal"),
            !.photocalRet = "photocalRet",
            !.log = @ \o <<"info@259">>
                      \o (IF c.exposure.exptime = 0 THEN <<"warn@267">>
                          ELSE <<>>),
            !.exposure.fluxMag0 = "new",                          \* 260
            !.exposure.metadata =                                 \* 263-272
                [k \in MagKeys |->
                    IF k = "MAGZERO" /\ c.exposure.exptime = 0
                    THEN c.exposure.metadata[k]
                    ELSE "new"]]

\* lines 250-274
CalPhotoCal ==
    /\ cal.at = "L250"
    /\ IF ~cal.config.doPhotoCal
       THEN cal' = [cal EXCEPT !.at = "L276", !.photocalRet = "None"]
       ELSE IF cal.matches = "None"
       THEN cal' = CalRaise(cal, "AssertionError@251")
       ELSE \E outcome \in PhotoCalOutcomes : cal' = PhotoCalStep(cal, outcome)
    /\ UNCHANGED <<cfg, pc, err, repo, puts, loc, idf, calls, ret, tpl, prev, ing>>

\* lines 276-287
CalReturn ==
    /\ cal.at = "L276"
    /\ cal' = [cal EXCEPT
                !.at = "returned",
                !.ret = [returned |-> TRUE, photocal |-> cal.photocalRet,
                         psf |-> cal.psf, apCorr |-> cal.apCorr,
                         matches |-> cal.matches]]
    /\ UNCHANGED <<cfg, pc, err, repo, puts, loc, idf, calls, ret, tpl, prev, ing>>

NextCalibrate ==
    \/ CalValidate
    \/ CalBegin
    \/ CalMeasurePsf
    \/ CalSecondPass
    \/ CalApCorr
    \/ CalAstrometry
    \/ CalPhotoCal
    \/ CalReturn

SpecCalibrate == InitCalibrate /\ [][NextCalibrate]_vars

----------------------------------------------------------------------------
(* Properties *)

ValueErrors == {"ValueError@136", "ValueError@138", "ValueError@140"}

\* run has been entered: the id factory of line 223 exists
Started == idf.sentinel > 0

Called(name) == \E i \in 1..Len(calls) : calls[i] = name

Indices(q) == 1..Len(q)

\* C1: validate raises exactly for the configurations with measurement but
\* no detection, or merging but no detection, or heavy footprints but no
\* written sources; every other configuration, the default one included, is
\* accepted.
C1_ValidateRejects ==
    pc # "validate" =>
        /\ (err \in ValueErrors) <=>
              \/ cfg.doMeasurement /\ ~cfg.doDetection
              \/ cfg.doMerge /\ ~cfg.doDetection
              \/ cfg.doWriteHeavyFootprintsInSources /\ ~cfg.doWriteSources
        /\ cfg = DefaultConfig => err \notin ValueErrors

C1_Witness ==
    /\ pc = "error"
    /\ err = "ValueError@140"
    /\ cfg.doDetection /\ cfg.doMeasurement /\ cfg.doMerge

\* the patches of the list whose coadd dataset exists, and those among them
\* whose PSF dataset exists too
WithCoadd(patchList) == {i \in Indices(patchList) : patchList[i].coadd}

WithCoaddAndPsf(patchList) ==
    {i \in Indices(patchList) : patchList[i].coadd /\ patchList[i].psf}

\* C2: getTemplate returns exactly when some patch of the list has a coadd
\* and some patch with a coadd has a PSF; a non-empty list with no coadd
\* fails with "No patches found!", a list with a coadd but no PSF with
\* "No coadd Psf found!"; what is returned has at least one patch copied in
\* and carries a PSF.
C2_TemplateAccepted ==
    tpl.at \in {"returned", "raised"} =>
        /\ tpl.at = "returned" <=>
              /\ WithCoadd(tpl.patchList) # {}
              /\ WithCoaddAndPsf(tpl.patchList) # {}
        /\ tpl.patchList # <<>> /\ WithCoadd(tpl.patchList) = {}
              => tpl.error = "RuntimeError@562"
        /\ WithCoadd(tpl.patchList) # {} /\ WithCoaddAndPsf(tpl.patchList) = {}
              => tpl.error = "RuntimeError@565"
        /\ tpl.at = "returned" => tpl.st.copied # <<>> /\ tpl.st.coaddPsf # 0

C2_Witness ==
    /\ tpl.at = "raised"
    /\ tpl.error = "RuntimeError@565"
    /\ Cardinality(WithCoadd(tpl.patchList)) >= 2
    /\ \E i \in Indices(tpl.patchList) : tpl.patchList[i].psf

\* C3: when the loop over a list of N patches, M of them without a coadd,
\* has ended, nPatchesFound is N - M, whatever PSF and aperture-correction
\* datasets exist and wherever in the list the missing patches are; with
\* M = N getTemplate raises "No patches found!".
C3_FoundCount ==
    LET N == Len(tpl.patchList)
        M == Cardinality({i \in Indices(tpl.patchList) : ~tpl.patchList[i].coadd})
    IN  /\ tpl.at = "L514" /\ tpl.i = N => tpl.st.nPatchesFound = N - M
        /\ tpl.at = "returned" => tpl.st.nPatchesFound = N - M
        /\ tpl.at = "raised" /\ N > 0 =>
              /\ tpl.st.nPatchesFound = N - M
              /\ M = N <=> tpl.error = "RuntimeError@562"

C3_Witness ==
    /\ tpl.at = "returned"
    /\ Len(tpl.patchList) = 3
    /\ tpl.st.nPatchesFound = 2
    /\ ~tpl.patchList[2].coadd
    /\ ~tpl.patchList[1].psf /\ ~tpl.patchList[3].apCorr

\* C4: when the science exposure has no PSF dataset, run ends with the
\* TaskError of line 233 under every configuration, having called neither
\* getTemplate nor any engine and having written nothing.
C4_MissingSciencePsf ==
    Started /\ ~repo.psf =>
        /\ pc = "error"
        /\ err = "TaskError@233"
        /\ calls = <<>>
        /\ puts = <<>>
        /\ loc.templateExposure = "None"
        /\ loc.subtractRes = "None"
        /\ loc.diaSources.none

C4_Witness ==
    /\ Started /\ ~repo.psf
    /\ err = "TaskError@233"
    /\ cfg.doSubtract /\ cfg.doDetection /\ cfg.doWriteSubtractedExp
    /\ repo.src
    /\ getTemplate(repo.patches).error = NoError

StageFlags == {"doSelectSources", "doSubtract", "doPreConvolve", "doDetection",
               "doMerge", "doMatchSources", "doMeasurement"}

\* every input dataset run reads is there
InputsPresent ==
    Started =>
        /\ repo.psf /\ repo.src
        /\ getTemplate(repo.patches).error = NoError
        /\ repo.differenceExp # "absent"
        /\ repo.apCorr # "absent"

\* C5: with any combination of the seven stage flags that validate accepts
\* (the other fields at their defaults), every input dataset present and
\* the engines succeeding, neither the construction of the task nor run
\* raises.
C5_EveryStageSkippable ==
    /\ validate(cfg) = NoError
    /\ \A f \in FlagNames \ StageFlags : cfg[f] = DefaultConfig[f]
    /\ InputsPresent
    /\ err # "EngineError@301"
    => pc # "error"

\* C6: the Struct of a run that returned: subtractRes is None exactly when
\* doSubtract is off, sources exactly when doDetection is off,
\* subtractedExposure exactly when both are off; subtractedExposure is the
\* subtraction's with doSubtract and the stored one with detection alone.
C6_ResultRecordsStages ==
    ret.returned =>
        /\ ret.subtractRes = "None" <=> ~cfg.doSubtract
        /\ ret.sources.none <=> ~cfg.doDetection
        /\ ret.subtractedExposure = "None" <=> ~cfg.doSubtract /\ ~cfg.doDetection
        /\ cfg.doSubtract => ret.subtractedExposure = "subtracted"
        /\ ~cfg.doSubtract /\ cfg.doDetection
              => ret.subtractedExposure = "stored" /\ repo.differenceExp = "present"

C6_Witness ==
    /\ ret.returned
    /\ ~cfg.doSubtract
    /\ ret.subtractedExposure = "stored"
    /\ ret.subtractRes = "None"
    /\ Len(ret.sources.recs) > 0

\* C7: with detection and cross-matching on and no "src" catalog stored, the
\* cross-match block does not raise.
C7_NoPriorCatalogTolerated ==
    Started /\ cfg.doDetection /\ cfg.doMatchSources /\ ~repo.src
        => err # "UnboundLocalError@372"

\* C8: when the matcher returns None for the reference matches, the run goes
\* on: no record has a refMatchId, and every record has the srcMatchId the
\* prior-source matches give it.
C8_NoReferenceMatches ==
    Called("matchXy") /\ loc.refMatches.none =>
        /\ pc # "error"
        /\ \A i \in Indices(loc.diaSources.recs) :
            LET rec == loc.diaSources.recs[i] IN
            /\ rec.refMatchId = 0
            /\ \A m \in Indices(loc.srcMatches) :
                  loc.srcMatches[m][2] = rec.id => rec.srcMatchId # 0
            /\ rec.srcMatchId # 0 =>
                  \E m \in Indices(loc.srcMatches) :
                      loc.srcMatches[m] = <<rec.srcMatchId, rec.id>>

C8_Witness ==
    /\ pc = "done"
    /\ Called("matchXy") /\ loc.refMatches.none
    /\ Len(loc.diaSources.recs) = 2
    /\ loc.diaSources.recs[1].srcMatchId # 0
    /\ loc.diaSources.recs[2].srcMatchId = 0

\* the records of the "src" catalog within the match radius of position p
PriorsNear(p) == {k \in Indices(loc.src) : Dist(loc.src[k], p) < matchRadPixel}

\* C9: after the cross-match every transient source with a prior source
\* within the radius has as srcMatchId the id of a prior source nearest to
\* it.
C9_NearestPriorSource ==
    Called("matchXy") =>
        \A i \in Indices(loc.diaSources.recs) :
            LET rec == loc.diaSources.recs[i] IN
            PriorsNear(rec.pos) # {} =>
                \E k \in PriorsNear(rec.pos) :
                    /\ rec.srcMatchId = PriorId(k)
                    /\ \A j \in PriorsNear(rec.pos) :
                          Dist(loc.src[k], rec.pos) <= Dist(loc.src[j], rec.pos)

\* the ids of the records a sequence holds
Ids(recs) == {recs[i].id : i \in Indices(recs)}

Distinct(recs) == Cardinality(Ids(recs)) = Len(recs)

HighBits(id) == id \div Pow2(IdBits - repo.ccdExposureId_bits)

\* C10: the records made from the id factory during one run (those of the
\* detection and, when merging, those of the merged catalog as well) have
\* pairwise distinct ids, and the high ccdExposureId_bits bits of each id are
\* the ccdExposureId.
C10_SourceIdsUnique ==
    Started =>
        /\ Distinct(loc.results)
        /\ Distinct(loc.diaSources.recs)
        /\ cfg.doMerge => Ids(loc.results) \cap Ids(loc.diaSources.recs) = {}
        /\ \A id \in Ids(loc.results) \cup Ids(loc.diaSources.recs) :
              /\ HighBits(id) = repo.ccdExposureId
              /\ id < Pow2(IdBits)

C10_Witness ==
    /\ pc = "done"
    /\ cfg.doMerge
    /\ Len(loc.results) = 2
    /\ Len(loc.diaSources.recs) = 2
    /\ repo.ccdExposureId = 1

Count(name) == Cardinality({i \in Indices(calls) : calls[i] = name})

\* the calls a, b, c were made in this order
InOrder(a, b, c) ==
    \E i, j, k \in Indices(calls) :
        /\ i < j /\ j < k
        /\ calls[i] = a /\ calls[j] = b /\ calls[k] = c

\* run has left the pre-convolution block of lines 251-268
PastPreConvolve ==
    /\ Started /\ cfg.doSubtract
    /\ loc.templateExposure # "None"
    /\ pc # "L251"

\* C11: with doSubtract and doPreConvolve, whichever way
\* useGaussianForPreConvolution is set, the science image is convolved (with
\* a Gaussian of width scienceSigmaOrig, or with the science PSF), the result
\* replaces the masked image of the exposure, and run goes on.
C11_PreConvolveBothSettings ==
    PastPreConvolve /\ cfg.doPreConvolve =>
        /\ err # "NameError@263"
        /\ Called("convolve")
        /\ loc.scienceMI = "convolved"
        /\ cfg.useGaussianForPreConvolution =>
              /\ loc.preConvPsf = "SingleGaussian"
              /\ loc.preConvSigma = Width(repo.sigma)
        /\ ~cfg.useGaussianForPreConvolution => loc.preConvPsf = "sciencePsf"

\* C12: the scienceFwhmPix given to subtractExposures is
\* scienceSigmaOrig * sqrt(2) * FwhmPerSigma after a Gaussian
\* pre-convolution and scienceSigmaOrig * FwhmPerSigma without
\* pre-convolution, scienceSigmaOrig being the width of the science PSF as
\* read.
C12_ScalingLaw ==
    Called("subtractExposures") =>
        /\ loc.scienceSigmaOrig = [sigma |-> repo.sigma, sqrt2 |-> 0, fwhmPerSigma |-> 0]
        /\ cfg.doPreConvolve /\ cfg.useGaussianForPreConvolution =>
              loc.scienceFwhmPix =
                  [sigma |-> repo.sigma, sqrt2 |-> 1, fwhmPerSigma |-> 1]
        /\ ~cfg.doPreConvolve =>
              loc.scienceFwhmPix =
                  [sigma |-> repo.sigma, sqrt2 |-> 0, fwhmPerSigma |-> 1]

C12_Witness ==
    /\ Called("subtractExposures")
    /\ Called("convolve")
    /\ repo.sigma = MaxSigma
    /\ pc = "done"
    /\ loc.scienceFwhmPix.sqrt2 = 1

\* C13: with doSubtract and doSelectSources and a stored "src" catalog, the
\* stored catalog is the candidate set, neither selectDetection nor
\* selectMeasurement is called, the candidates are matched with the known
\* WCS and filtered by the source selector, in this order, and the filtered
\* list is the candidateList of subtractExposures.
C13_StoredCatalogPath ==
    /\ Started /\ cfg.doSubtract /\ cfg.doSelectSources /\ repo.src
    /\ Called("subtractExposures")
    =>  /\ loc.selectSources = "src"
        /\ ~Called("selectDetection") /\ ~Called("selectMeasurement")
        /\ InOrder("useKnownWcs", "selectSources", "subtractExposures")
        /\ loc.kernelSources = "selected"
        /\ loc.candidateList = "selected"

C13_Witness ==
    /\ pc = "done"
    /\ cfg.doSubtract /\ cfg.doSelectSources /\ repo.src
    /\ loc.candidateList = "selected"
    /\ ~cfg.doPreConvolve

\* C14: with doSubtract and doSelectSources and no stored "src" catalog, run
\* calls its own detection and then its own measurement on the science
\* exposure and goes on to the matching, the selector and the subtraction
\* without an error.
C14_OwnDetectionPath ==
    /\ Started /\ cfg.doSubtract /\ cfg.doSelectSources /\ ~repo.src
    /\ loc.scienceSigmaPost # NoWidth
    /\ pc # "L271"
    =>  /\ err # "AttributeError@281"
        /\ InOrder("selectDetection", "selectMeasurement", "useKnownWcs")

\* C16: subtractExposures is called at most once in a run, after the
\* pre-convolution and the source selection; when it raises, run ends with
\* that exception, having called no detection and written nothing.
C16_SubtractOnce ==
    /\ Count("subtractExposures") <= 1
    /\ Called("subtractExposures") =>
          /\ loc.scienceSigmaPost # NoWidth
          /\ \A i, j \in Indices(calls) :
                calls[i] \in {"convolve", "selectSources"}
                    /\ calls[j] = "subtractExposures" => i < j
          /\ cfg.doSelectSources => Called("selectSources")
    /\ Called("subtractExposures") /\ loc.subtractRes = "None" =>
          /\ pc = "error"
          /\ err = "EngineError@301"
          /\ ~Called("detection")
          /\ calls[Len(calls)] = "subtractExposures"
          /\ puts = <<>>

C16_Witness ==
    /\ err = "EngineError@301"
    /\ cfg.doDetection /\ cfg.doWriteMatchedExp /\ cfg.doWriteSubtractedExp
    /\ Called("convolve") /\ Called("selectSources")

\* C17: when the patch list is empty, getTemplate raises at line 497 having
\* looked for or read no coadd, PSF or aperture-correction dataset, and run
\* ends with that exception having written nothing.
C17_NoPatchOverlap ==
    Called("getTemplate") /\ repo.patches = <<>> =>
        /\ pc = "error"
        /\ err = "RuntimeError@497"
        /\ loc.templateReads = <<>>
        /\ loc.templateExposure = "None"
        /\ calls[Len(calls)] = "getTemplate"
        /\ puts = <<>>

C17_Witness ==
    /\ err = "RuntimeError@497"
    /\ repo.patches = <<>>
    /\ ~cfg.doSubtract /\ cfg.doWriteSubtractedExp /\ cfg.doWriteSources
    /\ loc.subtractedExposure = "stored"

\* C19: getTemplate is called at most once in a run.
C19_TemplateAssembledOnce ==
    Count("getTemplate") <= 1

DetectionBits == {"DETECTED", "DETECTED_NEGATIVE"}

\* C15: every exposure given to detection.makeSourceCatalog, in this
\* invocation or an earlier one, has no DETECTED or DETECTED_NEGATIVE bit in
\* any pixel of its mask, whatever the mask had when the exposure came from
\* the subtraction or from the repository; the mask given differs from that
\* one in no other bit.
C15_DetectionPlanesCleared ==
    /\ \A r \in repo.memo.detection :
          \A i \in DOMAIN r.key.mask : r.key.mask[i] \cap DetectionBits = {}
    /\ Called("detection") =>
          /\ [mask |-> loc.maskAtDetection, psf |-> loc.differencePsf]
                \in {r.key : r \in repo.memo.detection}
          /\ DOMAIN loc.maskAtDetection = Pixels
          /\ DOMAIN loc.maskRead = Pixels
          /\ \A i \in Pixels :
                /\ loc.maskAtDetection[i] \cap DetectionBits = {}
                /\ loc.maskAtDetection[i] \ DetectionBits
                      = loc.maskRead[i] \ DetectionBits

C15_Witness ==
    /\ prev.attempts = 1
    /\ ~cfg.doSubtract
    /\ Called("detection")
    /\ Written(puts, "Diff_differenceExp") # <<>>
    /\ loc.maskRead[1] = {"DETECTED", "EDGE"}
    /\ loc.maskAtDetection[1] = {"EDGE"}
    /\ Written(prev.puts, "Diff_differenceExp")[1].detail.mask = loc.maskRead

OutputDatasets == {"Diff_matchedExp", "Diff_diaSrc", "Diff_differenceExp"}

\* C20: when the command is run a second time on the same data reference,
\* after a first invocation that returned or was stopped after any of its
\* puts, the second invocation returns as well, and what the repository then
\* holds for the matched exposure, the source catalog and the difference
\* exposure is what a single complete invocation leaves.
C20_IdempotentRetry ==
    prev.attempts = 1 =>
        /\ pc # "error"
        /\ pc = "done" =>
              \A d \in OutputDatasets : Written(puts, d) = Written(prev.puts, d)

C20_Witness ==
    /\ prev.attempts = 1
    /\ pc = "done"
    /\ ~cfg.doSubtract /\ cfg.doWriteSubtractedExp /\ cfg.doWriteSources
    /\ Len(prev.puts) = 2
    /\ Len(puts) = 4
    /\ "DETECTED" \in loc.maskRead[1]
    /\ \A r \in repo.memo.differenceExp : "DETECTED" \notin r.val.mask[1]
    /\ Len(loc.diaSources.recs) = 1

\* C18: when photocal.run raises an Exception in CalibrateTask.run, the
\* exception is caught and a warning is logged, run goes on to return a
\* Struct whose photocal is None, and the zero point of the exposure's Calib
\* and the MAGZERO, MAGZERO_RMS, MAGZERO_NOBJ and COLORTERM header keys are
\* as they were given.
C18_PhotoCalFailureCaught ==
    cal.photocal = "raised" =>
        /\ cal.config.doPhotoCal
        /\ cal.at \in {"L276", "returned"}
        /\ cal.error = NoError
        /\ cal.log # <<>> /\ cal.log[Len(cal.log)] = "warn@255"
        /\ cal.photocalRet = "None"
        /\ cal.exposure.fluxMag0 = cal.given.fluxMag0
        /\ cal.exposure.metadata = cal.given.metadata
        /\ cal.at = "returned" =>
              /\ cal.ret.returned
              /\ cal.ret.photocal = "None"
              /\ cal.ret.matches = "matches"

C18_Witness ==
    /\ cal.photocal = "raised"
    /\ cal.at = "returned"
    /\ cal.ret.photocal = "None"
    /\ cal.given.fluxMag0 = "old"
    /\ cal.ret.psf = "psf"

\* C21: with doDetection, doWriteSources and doWriteHeavyFootprintsInSources
\* all set, a run that reaches the writing of the sources does not raise
\* there: it goes on past line 393 with the catalog written as "diaSrc".
C21_HeavyFootprintsWritten ==
    /\ Started
    /\ cfg.doDetection /\ cfg.doWriteSources
    /\ cfg.doWriteHeavyFootprintsInSources
    /\ ~loc.diaSources.none
    =>  /\ err # "NameError@392"
        /\ pc \in {"L395", "L398", "done"}
               => Written(puts, "Diff_diaSrc") # <<>>

\* the patches among the first n of the list whose dataset d was looked for
\* (checked) and found, so read with sensorRef.get
Fetched(checked, d) ==
    {k \in 1..Len(checked) : tpl.patchList[checked[k]][d]}

FirstWith(n, d) ==
    LET S == {i \in 1..n : tpl.patchList[i].coadd /\ tpl.patchList[i][d]} IN
    IF S = {} THEN 0 ELSE CHOOSE i \in S : \A j \in S : i <= j

\* C23: in one call of getTemplate the PSF and the aperture correction are
\* each read at most once; the read is the last existence check made for
\* that kind of dataset, so no later patch is looked at for it; and the PSF
\* held (and installed at line 567) is that of the first patch in list order
\* whose coadd and PSF both exist.
C23_FetchedOnce ==
    tpl.at \in {"L514", "returned", "raised"} =>
    LET st == tpl.st IN
    /\ Cardinality(Fetched(st.psfChecked, "psf")) <= 1
    /\ Cardinality(Fetched(st.apChecked, "apCorr")) <= 1
    /\ st.coaddPsf # 0 =>
          /\ st.psfChecked # <<>>
          /\ st.psfChecked[Len(st.psfChecked)] = st.coaddPsf
    /\ st.coaddApCorr # 0 =>
          /\ st.apChecked # <<>>
          /\ st.apChecked[Len(st.apChecked)] = st.coaddApCorr
    /\ st.coaddPsf = FirstWith(tpl.i, "psf")

\* a returned template whose PSF comes from the first patch while a later
\* patch has a coadd, a PSF and an aperture correction of its own
C23_Witness ==
    /\ tpl.at = "returned"
    /\ tpl.st.coaddPsf = 1 /\ tpl.st.coaddApCorr = 1
    /\ \E i \in 2..Len(tpl.patchList) :
          /\ tpl.patchList[i].coadd
          /\ tpl.patchList[i].psf
          /\ tpl.patchList[i].apCorr

\* C24: when getTemplate returns and some patch with an existing coadd has an
\* aperture-correction dataset, the aperture correction returned is not None
\* and is that of the first such patch, whichever patches have a PSF dataset.
C24_ApCorrOfFirstPatch ==
    /\ tpl.at = "returned"
    /\ FirstWith(Len(tpl.patchList), "apCorr") # 0
    =>  tpl.st.coaddApCorr = FirstWith(Len(tpl.patchList), "apCorr")

\* the found patches among the first n of the list whose outer box has pt
FoundAt(n, pt) ==
    {i \in 1..n : tpl.patchList[i].coadd
                   /\ contains(tpl.patchList[i].outerBBox, pt)}

Last(S) == CHOOSE i \in S : \A j \in S : j <= i

\* C25 as stated: in the returned template a pixel in the outer box of no
\* found patch holds the sentinel with EDGE, and a pixel inside the outer
\* box of a found patch holds that patch's stored values.
C25_PatchValuesKept ==
    tpl.at = "returned" =>
    \A pt \in DOMAIN tpl.image :
        LET found == FoundAt(Len(tpl.patchList), pt) IN
        /\ found = {} => tpl.image[pt] = Sentinel
        /\ \A i \in found : tpl.image[pt] = StoredPixel(i, pt)

\* C25, amended: after every pass of the loop, and so in the returned
\* template, a pixel in the outer box of no found patch holds the sentinel
\* with EDGE, and a pixel inside the outer box of found patches holds the
\* stored values of the last of them in list order.
C25_LastPatchWins ==
    tpl.at \in {"L514", "returned"} =>
    \A pt \in DOMAIN tpl.image :
        LET found == FoundAt(tpl.i, pt) IN
        tpl.image[pt] = IF found = {} THEN Sentinel
                        ELSE StoredPixel(Last(found), pt)

\* a returned template with a pixel no found patch covers and a pixel two
\* found patches both cover
C25_Witness ==
    /\ tpl.at = "returned"
    /\ \E pt \in DOMAIN tpl.image : FoundAt(Len(tpl.patchList), pt) = {}
    /\ \E pt \in DOMAIN tpl.image :
          Cardinality(FoundAt(Len(tpl.patchList), pt)) = 2

\* the smallest box with every outer box of the list inside it, written
\* without reference to the order of the list
Hull(patchList) ==
    LET I == 1..Len(patchList)
        Least(S) == CHOOSE x \in S : \A y \in S : x <= y
        Most(S) == CHOOSE x \in S : \A y \in S : y <= x IN
    [empty |-> FALSE,
     minX |-> Least({patchList[i].outerBBox.minX : i \in I}),
     maxX |-> Most({patchList[i].outerBBox.maxX : i \in I}),
     minY |-> Least({patchList[i].outerBBox.minY : i \in I}),
     maxY |-> Most({patchList[i].outerBBox.maxY : i \in I})]

Inside(a, b) ==
    /\ b.minX <= a.minX /\ a.maxX <= b.maxX
    /\ b.minY <= a.minY /\ a.maxY <= b.maxY

\* C26: the box of the template is the smallest box that contains the outer
\* box of every patch of the list, found or missing: it contains each of
\* them, every box that contains each of them contains it, and it is the
\* same for every order of the list.
C26_SmallestBox ==
    tpl.at \in {"L514", "returned", "raised"} /\ tpl.patchList # <<>> =>
    /\ \A i \in 1..Len(tpl.patchList) :
          Inside(tpl.patchList[i].outerBBox, tpl.coaddBBox)
    /\ tpl.i = 0 =>
          \A b \in OuterBBoxes :
              (\A i \in 1..Len(tpl.patchList) :
                    Inside(tpl.patchList[i].outerBBox, b))
              => Inside(tpl.coaddBBox, b)
    /\ tpl.coaddBBox = Hull(tpl.patchList)
    /\ DOMAIN tpl.image = PixelsOf(tpl.coaddBBox)

\* a template made for two patches neither of whose outer boxes holds the
\* other, the first one missing from the repository
C26_Witness ==
    /\ tpl.at = "returned"
    /\ Len(tpl.patchList) >= 2
    /\ ~tpl.patchList[1].coadd
    /\ ~Inside(tpl.patchList[1].outerBBox, tpl.patchList[2].outerBBox)
    /\ ~Inside(tpl.patchList[2].outerBBox, tpl.patchList[1].outerBBox)
    /\ tpl.coaddBBox # tpl.patchList[1].outerBBox

\* the keys of the dictionary made from a list of matches
Keys(matches) == {matches[m][2] : m \in Indices(matches)}

\* C27: after the cross-match a record has a srcMatchId exactly when its id
\* is a key of the prior-source dictionary and a refMatchId exactly when its
\* id is a key of the reference dictionary, each with the value stored under
\* that key, whatever the other dictionary holds.
C27_LinkageIndependent ==
    Called("matchXy") =>
    LET recs == loc.diaSources.recs
        refMatches == RefPairs(loc.refMatches.matches, recs) IN
    \A i \in Indices(recs) :
        /\ recs[i].srcMatchId # 0 <=> recs[i].id \in Keys(loc.srcMatches)
        /\ recs[i].refMatchId # 0 <=> recs[i].id \in Keys(refMatches)
        /\ recs[i].srcMatchId =
              MatchDict(loc.srcMatches, Len(loc.srcMatches), recs[i].id)
        /\ recs[i].refMatchId =
              MatchDict(refMatches, Len(refMatches), recs[i].id)

\* one returned run whose catalog has a record with both fields set, one
\* with only srcMatchId, one with only refMatchId and one with neither
C27_Witness ==
    /\ pc = "done" /\ Called("matchXy")
    /\ \E i, j, k, l \in Indices(loc.diaSources.recs) :
        LET recs == loc.diaSources.recs IN
        /\ recs[i].srcMatchId # 0 /\ recs[i].refMatchId # 0
        /\ recs[j].srcMatchId # 0 /\ recs[j].refMatchId = 0
        /\ recs[k].srcMatchId = 0 /\ recs[k].refMatchId # 0
        /\ recs[l].srcMatchId = 0 /\ recs[l].refMatchId = 0

C29_AssertionsHold ==
    LET c == cal.config IN
    /\ cal.error \notin {"AssertionError@234", "AssertionError@240"}
    /\ cal.error = "AssertionError@251" =>
          /\ c.doAstrometry
          /\ cal.calls # <<>> /\ cal.calls[Len(cal.calls)] = "astrometry"
          /\ cal.matches = "None"
    /\ cal.at \in {"L243", "L250", "L276", "returned"} =>
          /\ c.doComputeApCorr => c.doPsf /\ cal.apCorr # "None"
          /\ c.doApplyApCorr => cal.apCorr # "None"
    /\ cal.at \in {"L250", "L276", "returned"} /\ c.doPhotoCal =>
          /\ c.doAstrometry
          /\ \E k \in 1..Len(cal.calls) : cal.calls[k] = "astrometry"
          /\ cal.at # "L250" => cal.matches # "None"

\* a run whose configuration computes and applies the aperture correction
\* and calibrates the photometry, past the three assertions
C29_Witness ==
    /\ cal.at \in {"L276", "returned"}
    /\ cal.config.doComputeApCorr /\ cal.config.doApplyApCorr
    /\ cal.config.doPhotoCal
    /\ cal.matches # "None" /\ cal.apCorr # "None"

\* C22: with --dry-run, in every mode, run changes nothing (no directory
\* made, no file copied, linked or moved, the registry not opened and no
\* statement executed on it) and returns.
C22_DryRunChangesNothing ==
    ing.args.dryrun =>
        /\ ing.done = <<>>
        /\ ing.registry = ing.given
        /\ ing.at # "raised"

\* C30: the properties getInfo returns for a file are those of the file's own
\* header: a property whose keyword the header lacks is absent from the
\* result, whatever the files parsed before it held.
C30_InfoOfCurrentFile ==
    ing.i >= 1 =>
        ing.fileInfo = getInfoFromMetadata(ing.args.files[ing.i], NoInfo)

====
